---- MODULE Spec2Model ----
(***************************************************************************)
(* A model of llbase/llidl.py: the LLIDL match-result lattice (_Result),   *)
(* the value matchers (Value and its subclasses), the Suite registry and   *)
(* the suite-level part of the parser (_Parser.parse_suite).               *)
(***************************************************************************)
EXTENDS Integers, Sequences, FiniteSets, TLC

VARIABLES
    opA, opB, opC,      \* operands of the lattice operation under evaluation
    lop,                \* which _Result operation ran last ("none" before any)
    lres,               \* what it returned
    matcher,            \* a free-standing or suite-attached Value matcher
    msuite,             \* the Suite its variant matchers point to (NoSuite if none)
    given,              \* the LLSD value handed to match / valid
    call,               \* the last Value.match / Value.valid call and its arguments
    ret,                \* how that call ended
    text,               \* the suite text handed to parse_suite, as its definitions
    pos,                \* number of definitions of text the parser has consumed
    suite,              \* the Suite under construction, then the parsed Suite
    presult,            \* how parse_suite ended ("running" until it does)
    query,              \* the last Suite.match_* / valid_* call and its arguments
    qret,               \* how that call ended
    history,            \* the queries made on a parsed Suite so far, with their results
    source,             \* the text handed to parse_value, as its characters
    scanner,            \* _offset, _line and _lineoffset of the _Parser reading it
    parsed,             \* how parse_value ended ("none" before it ran)
    cfg,                \* the fields of a Config object
    cfile,              \* the configuration file on disk: content and mtime
    now,                \* time.time()
    ticks,              \* how many times the clock has advanced
    cget,               \* the last Config.get call and what it returned
    lastset             \* for each key, the value of the last set/update naming it

vars == <<opA, opB, opC, lop, lres, matcher, msuite, given, call, ret,
          text, pos, suite, presult, query, qret, history,
          source, scanner, parsed, cfg, cfile, now, ticks, cget, lastset>>

latticeVars == <<opA, opB, opC, lop, lres>>
matchVars   == <<matcher, msuite, given, call, ret>>
suiteVars   == <<text, pos, suite, presult, query, qret>>
\* the variables of the later specifications, idle in the first three
queryVars   == <<history>>
parseVars   == <<source, scanner, parsed>>
configVars  == <<cfg, cfile, now, ticks, cget, lastset>>
extraVars   == <<queryVars, parseVars, configVars>>

-----------------------------------------------------------------------------
(* _Result: llidl.py lines 45-100.  _value is kept in tenths so that 2.1   *)
(* and 2.2 stay exact integers; int(_value) is then _value \div 10.        *)

MATCHED_VALUE      == 40
CONVERTED_VALUE    == 30
DEFAULTED_VALUE    == 22
ADDITIONAL_VALUE   == 21
MIXED_VALUE        == 10
INCOMPATIBLE_VALUE == 0

MATCHED      == [value |-> MATCHED_VALUE,      name |-> "MATCHED"]
CONVERTED    == [value |-> CONVERTED_VALUE,    name |-> "CONVERTED"]
DEFAULTED    == [value |-> DEFAULTED_VALUE,    name |-> "DEFAULTED"]
ADDITIONAL   == [value |-> ADDITIONAL_VALUE,   name |-> "ADDITIONAL"]
MIXED        == [value |-> MIXED_VALUE,        name |-> "MIXED"]
INCOMPATIBLE == [value |-> INCOMPATIBLE_VALUE, name |-> "INCOMPATIBLE"]

Results == {MATCHED, CONVERTED, DEFAULTED, ADDITIONAL, MIXED, INCOMPATIBLE}

\* int(self._value)
IntOf(v) == v \div 10

\* _Result.__eq__
ResultEq(self, other) == self.value = other.value

\* a slip that compares whole-number ranks instead of the raw values
ResultLtByRank(self, other) == IntOf(self.value) < IntOf(other.value)

\* a slip that inverts the comparison
ResultLtInverted(self, other) == self.value > other.value

\* _Result.__lt__
ResultLt(self, other) == self.value < other.value

\* functools.total_ordering derives the other three from __lt__ and __eq__
ResultLe(self, other) == ResultLt(self, other) \/ ResultEq(self, other)
ResultGt(self, other) == ~ResultLt(self, other) /\ ~ResultEq(self, other)
ResultGe(self, other) == ~ResultLt(self, other)

\* a slip that drops the MIXED collapse of the two partial outcomes
ResultAndNoCollapse(self, other) ==
    LET sv == IntOf(self.value)
        ov == IntOf(other.value)
    IN  IF sv < ov THEN self
        ELSE IF ov < sv THEN other
        ELSE self

\* a slip that ranks by the raw values, so ADDITIONAL & DEFAULTED is ADDITIONAL
ResultAndRaw(self, other) ==
    IF self.value < other.value THEN self
    ELSE IF other.value < self.value THEN other
    ELSE self

\* a slip that collapses to MIXED only when the left operand is DEFAULTED
ResultAndOneSided(self, other) ==
    LET sv == IntOf(self.value)
        ov == IntOf(other.value)
    IN  IF sv < ov THEN self
        ELSE IF ov < sv THEN other
        ELSE IF self.value # other.value /\ self = DEFAULTED THEN MIXED
        ELSE self

\* _Result.__and__
ResultAnd(self, other) ==
    LET sv == IntOf(self.value)
        ov == IntOf(other.value)
    IN  IF sv < ov THEN self
        ELSE IF ov < sv THEN other
        ELSE IF self.value # other.value THEN MIXED
        ELSE self

\* a slip that ranks by whole numbers, so a tie returns the left operand
ResultOrByRank(self, other) ==
    IF IntOf(self.value) >= IntOf(other.value) THEN self ELSE other

\* _Result.__or__
ResultOr(self, other) ==
    IF self.value >= other.value THEN self ELSE other

\* r = MATCHED; for x in xs: r &= x   (the fold every composite matcher runs)
RECURSIVE AndFold(_, _)
AndFold(r, xs) ==
    IF xs = <<>> THEN r ELSE AndFold(ResultAnd(r, Head(xs)), Tail(xs))

\* all five comparison operators applied to one pair of outcomes
Comparisons(a, b) ==
    [eq |-> ResultEq(a, b), lt |-> ResultLt(a, b), le |-> ResultLe(a, b),
     gt |-> ResultGt(a, b), ge |-> ResultGe(a, b)]

-----------------------------------------------------------------------------
(* LLSD values, as the Python objects the matchers inspect with type():    *)
(*   None      [t |-> "undef"]                                             *)
(*   bool      [t |-> "bool", b |-> TRUE]                                  *)
(*   int       [t |-> "int", i |-> 16]                                     *)
(*   float     [t |-> "real", r |-> 162]      finite, in tenths (16.2)      *)
(*             [t |-> "real", nan |-> TRUE]   float('nan')                  *)
(*   str       [t |-> "string", s |-> "bee"]                               *)
(*   datetime  [t |-> "date"]    uuid.UUID  [t |-> "uuid"]                 *)
(*   llsd.uri  [t |-> "uri"]     llsd.binary [t |-> "binary"]              *)
(*   list      [t |-> "array", a |-> <<v1, v2>>]                           *)
(*   dict      [t |-> "map", m |-> <<[k |-> "x", v |-> v1]>>]  (in order)   *)

VUndef      == [t |-> "undef"]
VBool(b)    == [t |-> "bool", b |-> b]
VInt(i)     == [t |-> "int", i |-> i]
VReal(r)    == [t |-> "real", r |-> r]
VNaN        == [t |-> "real", nan |-> TRUE]
VStr(s)     == [t |-> "string", s |-> s]
VDate       == [t |-> "date"]
VUUID       == [t |-> "uuid"]
VURI        == [t |-> "uri"]
VBinary     == [t |-> "binary"]
VArray(a)   == [t |-> "array", a |-> a]
VMap(m)     == [t |-> "map", m |-> m]

DateString == "2009-02-06T22:17:38Z"
UUIDString == "6cb93268-5148-423f-8618-eaa0884f7b62"

\* whether a float is not-a-number: it equals no number, and int() of it
\* raises ValueError
IsNaN(v) == "nan" \in DOMAIN v

\* float(s) for the strings of the model: the value in tenths, "nan" for a
\* string float() accepts as not-a-number, "error" when float() raises
FloatOfString(s) ==
    CASE s = "16"   -> [ok |-> TRUE, nan |-> FALSE, r |-> 160]
      [] s = "16.2" -> [ok |-> TRUE, nan |-> FALSE, r |-> 162]
      [] s = "1"    -> [ok |-> TRUE, nan |-> FALSE, r |-> 10]
      [] s = "0"    -> [ok |-> TRUE, nan |-> FALSE, r |-> 0]
      [] s = "nan"  -> [ok |-> TRUE, nan |-> TRUE, r |-> 0]
      [] OTHER      -> [ok |-> FALSE, nan |-> FALSE, r |-> 0]

\* int(x) of a float given in tenths: truncation toward zero
Trunc(r) == IF r >= 0 THEN r \div 10 ELSE 0 - ((0 - r) \div 10)

\* _dateRE.match / _uuidRE.match on the strings of the model
MatchesDateRE(s) == s = DateString
MatchesUUIDRE(s) == s = UUIDString

(* Matchers, as the objects the parser builds:                             *)
(*   [k |-> "int"] and the other ten entries of _Parser._typemap           *)
(*   [k |-> "number", number |-> 16]        _NumberMatcher                 *)
(*   [k |-> "name", name |-> "red"]         _NameMatcher                   *)
(*   [k |-> "array", values |-> <<..>>, repeating |-> FALSE]               *)
(*   [k |-> "map", members |-> <<[name |-> "x", value |-> m]>>]            *)
(*   [k |-> "dict", value |-> m]                                           *)
(*   [k |-> "variant", name |-> "a"]        _suite is the msuite argument  *)

Prim(k)            == [k |-> k]
NumberMatcher(n)   == [k |-> "number", number |-> n]
NameMatcher(n)     == [k |-> "name", name |-> n]
ArrayMatcher(vs, rep) == [k |-> "array", values |-> vs, repeating |-> rep]
MapMatcher(ms)     == [k |-> "map", members |-> ms]
DictMatcher(v)     == [k |-> "dict", value |-> v]
VariantMatcher(n)  == [k |-> "variant", name |-> n]

\* self.__class__.__name__
ClassName(m) ==
    CASE m.k = "undef"   -> "_UndefMatcher"
      [] m.k = "bool"    -> "_BoolMatcher"
      [] m.k = "true"    -> "_TrueMatcher"
      [] m.k = "false"   -> "_FalseMatcher"
      [] m.k = "int"     -> "_IntMatcher"
      [] m.k = "number"  -> "_NumberMatcher"
      [] m.k = "real"    -> "_RealMatcher"
      [] m.k = "string"  -> "_StringMatcher"
      [] m.k = "name"    -> "_NameMatcher"
      [] m.k = "date"    -> "_DateMatcher"
      [] m.k = "uuid"    -> "_UUIDMatcher"
      [] m.k = "uri"     -> "_URIMatcher"
      [] m.k = "binary"  -> "_BinaryMatcher"
      [] m.k = "array"   -> "_ArrayMatcher"
      [] m.k = "map"     -> "_MapMatcher"
      [] m.k = "dict"    -> "_DictMatcher"
      [] m.k = "variant" -> "_VariantMatcher"

\* _BoolMatcher._compare, up to the raise
BoolOutcome(v) ==
    CASE v.t = "undef"  -> DEFAULTED
      [] v.t = "bool"   -> MATCHED
      [] v.t = "int"    -> IF v.i = 0 \/ v.i = 1 THEN CONVERTED ELSE INCOMPATIBLE
      [] v.t = "real"   -> IF ~IsNaN(v) /\ (v.r = 0 \/ v.r = 10) THEN CONVERTED
                           ELSE INCOMPATIBLE
      [] v.t = "string" -> IF v.s = "" \/ v.s = "true" THEN CONVERTED
                           ELSE INCOMPATIBLE
      [] OTHER          -> INCOMPATIBLE

\* a slip that lets the 'true' selector default like the type bool
TrueOutcomeDefaults(v) ==
    IF v.t = "undef" THEN DEFAULTED
    ELSE IF v = VBool(TRUE) THEN MATCHED
    ELSE IF v \in {VInt(1), VReal(10), VStr("true")} THEN CONVERTED
    ELSE INCOMPATIBLE

\* _TrueMatcher._compare, up to the raise
TrueOutcome(v) ==
    CASE v.t = "undef"  -> INCOMPATIBLE
      [] v.t = "bool"   -> IF v.b THEN MATCHED ELSE INCOMPATIBLE
      [] v.t = "int"    -> IF v.i = 1 THEN CONVERTED ELSE INCOMPATIBLE
      [] v.t = "real"   -> IF ~IsNaN(v) /\ v.r = 10 THEN CONVERTED
                           ELSE INCOMPATIBLE
      [] v.t = "string" -> IF v.s = "true" THEN CONVERTED ELSE INCOMPATIBLE
      [] OTHER          -> INCOMPATIBLE

\* _FalseMatcher._compare, up to the raise
FalseOutcome(v) ==
    CASE v.t = "undef"  -> DEFAULTED
      [] v.t = "bool"   -> IF ~v.b THEN MATCHED ELSE INCOMPATIBLE
      [] v.t = "int"    -> IF v.i = 0 THEN CONVERTED ELSE INCOMPATIBLE
      [] v.t = "real"   -> IF ~IsNaN(v) /\ v.r = 0 THEN CONVERTED
                           ELSE INCOMPATIBLE
      [] v.t = "string" -> IF v.s = "" THEN CONVERTED ELSE INCOMPATIBLE
      [] OTHER          -> INCOMPATIBLE

\* _IntMatcher._compare, up to the raise
IntOutcome(v) ==
    CASE v.t = "undef"  -> DEFAULTED
      [] v.t = "bool"   -> CONVERTED
      [] v.t = "int"    -> MATCHED
      [] v.t = "real"   -> IF ~IsNaN(v) /\ v.r % 10 = 0 THEN CONVERTED
                           ELSE INCOMPATIBLE
      [] v.t = "string" ->
            LET f == FloatOfString(v.s)
            IN  IF f.ok /\ ~f.nan
                THEN IF f.r % 10 = 0 THEN CONVERTED ELSE INCOMPATIBLE
                ELSE IF v.s = "" THEN DEFAULTED ELSE INCOMPATIBLE
      [] OTHER          -> INCOMPATIBLE

\* _NumberMatcher._compare: the 'n = int(actual)' of the float branch stands
\* outside any try, so the ValueError int() raises on not-a-number leaves
\* _compare
NumberRaises(v) == v.t = "real" /\ IsNaN(v)

\* _NumberMatcher._compare, up to the raise, when int(actual) did not raise
NumberOutcome(number, v) ==
    LET nr ==
          CASE v.t = "undef"  -> [n |-> 0, r |-> DEFAULTED]
            [] v.t = "bool"   -> [n |-> IF v.b THEN 1 ELSE 0, r |-> CONVERTED]
            [] v.t = "int"    -> [n |-> v.i, r |-> MATCHED]
            [] v.t = "real"   -> [n |-> Trunc(v.r), r |-> CONVERTED]
            [] v.t = "string" ->
                  LET f == FloatOfString(v.s)
                  IN  IF f.ok /\ ~f.nan THEN [n |-> Trunc(f.r), r |-> CONVERTED]
                      ELSE IF v.s = "" THEN [n |-> 0, r |-> DEFAULTED]
                      ELSE [n |-> 0, r |-> INCOMPATIBLE]
            [] OTHER          -> [n |-> 0, r |-> INCOMPATIBLE]
    IN  IF nr.r # INCOMPATIBLE /\ nr.n # number THEN INCOMPATIBLE ELSE nr.r

\* _RealMatcher._compare, up to the raise; early is the 'return DEFAULTED'
\* that leaves the method before the raise check
RealOutcome(v) ==
    CASE v.t = "undef"  -> [r |-> DEFAULTED, early |-> FALSE]
      [] v.t = "bool"   -> [r |-> CONVERTED, early |-> FALSE]
      [] v.t = "int"    -> [r |-> CONVERTED, early |-> FALSE]
      [] v.t = "real"   -> [r |-> MATCHED, early |-> FALSE]
      [] v.t = "string" ->
            IF FloatOfString(v.s).ok THEN [r |-> CONVERTED, early |-> FALSE]
            ELSE IF v.s = "" THEN [r |-> DEFAULTED, early |-> TRUE]
            ELSE [r |-> INCOMPATIBLE, early |-> FALSE]
      [] OTHER          -> [r |-> INCOMPATIBLE, early |-> FALSE]

\* _StringMatcher._compare, up to the raise
StringOutcome(v) ==
    CASE v.t = "undef"  -> DEFAULTED
      [] v.t = "string" -> MATCHED
      [] v.t = "binary" -> INCOMPATIBLE
      [] OTHER          -> CONVERTED

\* a slip that lets a name selector default like the type string
NameOutcomeDefaults(name, v) ==
    IF v.t = "undef" THEN DEFAULTED
    ELSE IF v = VStr(name) THEN MATCHED ELSE INCOMPATIBLE

\* _NameMatcher._compare, up to the raise
NameOutcome(name, v) ==
    CASE v.t = "undef"  -> IF name = "" THEN DEFAULTED ELSE INCOMPATIBLE
      [] v.t = "string" -> IF name = v.s THEN MATCHED ELSE INCOMPATIBLE
      [] OTHER          -> INCOMPATIBLE

\* _DateMatcher._compare, up to the raise
DateOutcome(v) ==
    CASE v.t = "undef"  -> DEFAULTED
      [] v.t = "string" -> IF MatchesDateRE(v.s) THEN CONVERTED
                           ELSE IF v.s = "" THEN DEFAULTED ELSE INCOMPATIBLE
      [] v.t = "date"   -> MATCHED
      [] OTHER          -> INCOMPATIBLE

\* _UUIDMatcher._compare, up to the raise
UUIDOutcome(v) ==
    CASE v.t = "undef"  -> DEFAULTED
      [] v.t = "string" -> IF MatchesUUIDRE(v.s) THEN CONVERTED
                           ELSE IF v.s = "" THEN DEFAULTED ELSE INCOMPATIBLE
      [] v.t = "uuid"   -> MATCHED
      [] OTHER          -> INCOMPATIBLE

\* _URIMatcher._compare, up to the raise
URIOutcome(v) ==
    CASE v.t = "undef"  -> DEFAULTED
      [] v.t = "string" -> IF v.s = "" THEN DEFAULTED ELSE CONVERTED
      [] v.t = "uri"    -> MATCHED
      [] OTHER          -> INCOMPATIBLE

\* _BinaryMatcher._compare, up to the raise
BinaryOutcome(v) ==
    CASE v.t = "undef"  -> DEFAULTED
      [] v.t = "binary" -> MATCHED
      [] OTHER          -> INCOMPATIBLE

-----------------------------------------------------------------------------
(* Value._compare and its overrides.  A call ends in one of three ways:    *)
(*   [kind |-> "ok", r |-> outcome]       it returned an outcome           *)
(*   [kind |-> "stack", stack |-> <<..>>] it raised MatchErrorStack        *)
(*   [kind |-> "recursion"]               the interpreter's recursion      *)
(*                                        limit was hit (RecursionError)   *)
(*   [kind |-> "error", cls |-> "ValueError"]  another exception left it   *)

Ok(r)          == [kind |-> "ok", r |-> r]
Raised(stack)  == [kind |-> "stack", stack |-> stack]
RecursionError == [kind |-> "recursion"]
Uncaught(cls)  == [kind |-> "error", cls |-> cls]

\* an exception no 'except MatchErrorStack' of the callers catches
Escapes(c) == c.kind \in {"recursion", "error"}

\* raise_level=None
NoLevel == [value |-> 0 - 1, name |-> "None"]

\* a slip that raises at the level itself: r <= raise_level
BelowLevelInclusive(r, raise_level) ==
    raise_level # NoLevel /\ ResultLe(r, raise_level)

\* 'raise_level is not None and r < raise_level'
BelowLevel(r, raise_level) == raise_level # NoLevel /\ ResultLt(r, raise_level)

\* the vtype argument: the class alone, or the tuple (class, literal)
PlainType(m) == [klass |-> ClassName(m), named |-> FALSE]
NamedType(m, lit) == [klass |-> ClassName(m), named |-> TRUE, name |-> lit]

VType(m) ==
    CASE m.k = "true"    -> NamedType(m, [b |-> TRUE])
      [] m.k = "number"  -> NamedType(m, [n |-> m.number])
      [] m.k = "name"    -> NamedType(m, [s |-> m.name])
      [] m.k = "variant" -> NamedType(m, [s |-> m.name])
      [] OTHER           -> PlainType(m)

\* MatchErrorStack.__init__: one entry, a triple when r is given
StackEntry3(vtype, val, r) == [vtype |-> vtype, val |-> val, len |-> 3, r |-> r]
StackEntry2(vtype, val)    == [vtype |-> vtype, val |-> val, len |-> 2]

\* MatchErrorStack.push: insert (vtype, val) at the front
Push(stack, vtype, val) == <<StackEntry2(vtype, val)>> \o stack

\* the outcome a primitive or selector matcher computes before its raise check
LeafOutcome(m, v) ==
    CASE m.k = "bool"   -> BoolOutcome(v)
      [] m.k = "true"   -> TrueOutcome(v)
      [] m.k = "false"  -> FalseOutcome(v)
      [] m.k = "int"    -> IntOutcome(v)
      [] m.k = "number" -> NumberOutcome(m.number, v)
      [] m.k = "real"   -> RealOutcome(v).r
      [] m.k = "string" -> StringOutcome(v)
      [] m.k = "name"   -> NameOutcome(m.name, v)
      [] m.k = "date"   -> DateOutcome(v)
      [] m.k = "uuid"   -> UUIDOutcome(v)
      [] m.k = "uri"    -> URIOutcome(v)
      [] m.k = "binary" -> BinaryOutcome(v)

\* the tail shared by the primitive and selector matchers:
\*   if raise_level is not None and r < raise_level: raise MatchErrorStack(..)
\*   return r
LeafCompare(m, v, raise_level) ==
    LET r == LeafOutcome(m, v)
    IN  IF m.k = "number" /\ NumberRaises(v) THEN Uncaught("ValueError")
        ELSE IF m.k = "real" /\ RealOutcome(v).early THEN Ok(r)
        ELSE IF BelowLevel(r, raise_level)
             THEN Raised(<<StackEntry3(VType(m), [value |-> v], r)>>)
             ELSE Ok(r)

\* a slip that rounds down to a multiple
RoundupDown(value, multiple) == value - (value % multiple)

\* _roundup
Roundup(value, multiple) ==
    value - 1 + (multiple - ((value - 1) % multiple))

\* 'name in actual' and 'actual[name]' on a dict kept as ordered pairs
HasKey(pairs, name) == \E i \in 1..Len(pairs) : pairs[i].k = name
GetKey(pairs, name) ==
    pairs[CHOOSE i \in 1..Len(pairs) : pairs[i].k = name].v

\* 'name not in self._members'
IsMember(members, name) == \E i \in 1..Len(members) : members[i].name = name

\* a slip that never looks for undeclared keys
FirstExtraKeyIgnored(members, pairs) == 0

\* the first key of actual, in iteration order, that is no declared member;
\* 0 when every key is declared
FirstExtraKey(members, pairs) ==
    LET extra == {i \in 1..Len(pairs) : ~IsMember(members, pairs[i].k)}
    IN  IF extra = {} THEN 0
        ELSE CHOOSE i \in extra : \A j \in extra : i <= j

\* self._suite._get_variant_options(self._name)
GetVariantOptions(s, name) ==
    IF name \in DOMAIN s.variants THEN s.variants[name] ELSE <<>>

\* a slip that compares as many positions as the longer of the two has
TotalLengthLonger(repeating, alen, vlen) ==
    IF repeating THEN Roundup(alen, vlen)
    ELSE IF alen > vlen THEN alen ELSE vlen

\* tlen: the number of positions _ArrayMatcher._compare goes through
TotalLength(repeating, alen, vlen) ==
    IF repeating THEN Roundup(alen, vlen) ELSE vlen

RECURSIVE Compare(_, _, _, _, _)
RECURSIVE ArrayLoop(_, _, _, _, _, _, _, _)
RECURSIVE MapLoop(_, _, _, _, _, _, _)
RECURSIVE DictLoop(_, _, _, _, _, _, _)
RECURSIVE VariantLoop(_, _, _, _, _, _, _, _, _)

\* _ArrayMatcher._compare: 'for i in range(0, tlen)' from position i on
ArrayLoop(m, a, i, tlen, r, raise_level, s, d) ==
    IF i >= tlen THEN Ok(r)
    ELSE LET vlen == Len(m.values)
             v == IF i < Len(a) THEN a[i + 1] ELSE VUndef
             c == Compare(m.values[(i % vlen) + 1], v, raise_level, s, d)
         IN  CASE c.kind = "stack" ->
                      Raised(Push(c.stack, PlainType(m), [index |-> i]))
               [] Escapes(c) -> c
               [] OTHER ->
                      ArrayLoop(m, a, i + 1, tlen, ResultAnd(r, c.r),
                                raise_level, s, d)

\* _MapMatcher._compare: 'for (name, value) in self._members.items()' from
\* the i-th member on
MapLoop(m, pairs, i, r, raise_level, s, d) ==
    IF i > Len(m.members) THEN Ok(r)
    ELSE LET name == m.members[i].name
             v == IF HasKey(pairs, name) THEN GetKey(pairs, name) ELSE VUndef
             c == Compare(m.members[i].value, v, raise_level, s, d)
         IN  CASE c.kind = "stack" ->
                      Raised(Push(c.stack, PlainType(m), [key |-> name]))
               [] Escapes(c) -> c
               [] OTHER ->
                      MapLoop(m, pairs, i + 1, ResultAnd(r, c.r),
                              raise_level, s, d)

\* a slip that stops after the first value of the mapping
DictLoopFirstOnly(m, pairs, i, r, raise_level, s, d) ==
    IF pairs = <<>> THEN Ok(r)
    ELSE Compare(m.value, pairs[1].v, raise_level, s, d)

\* _DictMatcher._compare: 'for (k, v) in actual.items()' from the i-th on
DictLoop(m, pairs, i, r, raise_level, s, d) ==
    IF i > Len(pairs) THEN Ok(r)
    ELSE LET c == Compare(m.value, pairs[i].v, raise_level, s, d)
         IN  CASE c.kind = "stack" ->
                      Raised(Push(c.stack, PlainType(m), [key |-> pairs[i].k]))
               [] Escapes(c) -> c
               [] OTHER ->
                      DictLoop(m, pairs, i + 1, ResultAnd(r, c.r),
                               raise_level, s, d)

\* _VariantMatcher._compare: 'for option in ...' from the i-th option on,
\* then the raise check and the return
VariantLoop(m, options, i, v, r, match_errors, raise_level, s, d) ==
    IF i > Len(options)
    THEN IF match_errors # <<>> /\ ResultLt(r, raise_level)
         THEN Raised(<<StackEntry2(VType(m), [errors |-> match_errors])>>)
         ELSE Ok(r)
    ELSE LET c == Compare(options[i], v, raise_level, s, d)
         IN  CASE c.kind = "stack" ->
                      VariantLoop(m, options, i + 1, v, r,
                                  Append(match_errors, c.stack), raise_level,
                                  s, d)
               [] Escapes(c) -> c
               [] OTHER ->
                      VariantLoop(m, options, i + 1, v, ResultOr(r, c.r),
                                  match_errors, raise_level, s, d)

\* _compare(actual, raise_level) of matcher m whose variant matchers point to
\* suite s, with d stack frames left before the recursion limit
Compare(m, actual, raise_level, s, d) ==
    IF d = 0 THEN RecursionError
    ELSE CASE m.k = "undef" -> Ok(MATCHED)
      [] m.k = "array" ->
            LET act == IF actual = VUndef THEN VArray(<<>>) ELSE actual
            IN  IF act.t # "array"
                THEN IF raise_level # NoLevel
                     THEN Raised(<<StackEntry3(PlainType(m), [value |-> act],
                                               INCOMPATIBLE)>>)
                     ELSE Ok(INCOMPATIBLE)
                ELSE LET vlen == Len(m.values)
                         alen == Len(act.a)
                         tlen == TotalLength(m.repeating, alen, vlen)
                         r0 == IF ~m.repeating /\ alen > vlen
                               THEN ResultAnd(MATCHED, ADDITIONAL)
                               ELSE MATCHED
                     IN  IF ~m.repeating /\ alen > vlen
                            /\ BelowLevel(r0, raise_level)
                         THEN Raised(<<StackEntry3(PlainType(m),
                                          [value |-> act], ADDITIONAL)>>)
                         ELSE ArrayLoop(m, act.a, 0, tlen, r0, raise_level,
                                        s, d - 1)
      [] m.k = "map" ->
            LET act == IF actual = VUndef THEN VMap(<<>>) ELSE actual
            IN  IF act.t # "map"
                THEN IF raise_level # NoLevel
                     THEN Raised(<<StackEntry3(PlainType(m), [value |-> act],
                                               INCOMPATIBLE)>>)
                     ELSE Ok(INCOMPATIBLE)
                ELSE LET c == MapLoop(m, act.m, 1, MATCHED, raise_level,
                                      s, d - 1)
                         x == FirstExtraKey(m.members, act.m)
                     IN  IF c.kind # "ok" \/ x = 0 THEN c
                         ELSE LET r == ResultAnd(c.r, ADDITIONAL)
                              IN  IF BelowLevel(r, raise_level)
                                  THEN Raised(<<StackEntry3(PlainType(m),
                                           [key |-> act.m[x].k], ADDITIONAL)>>)
                                  ELSE Ok(r)
      [] m.k = "dict" ->
            LET act == IF actual = VUndef THEN VMap(<<>>) ELSE actual
            IN  IF act.t # "map" THEN Ok(INCOMPATIBLE)
                ELSE DictLoop(m, act.m, 1, MATCHED, raise_level, s, d - 1)
      [] m.k = "variant" ->
            IF ~s.attached THEN Ok(INCOMPATIBLE)
            ELSE VariantLoop(m, GetVariantOptions(s, m.name), 1, actual,
                             INCOMPATIBLE, <<>>, raise_level, s, d - 1)
      [] OTHER -> LeafCompare(m, actual, raise_level)

-----------------------------------------------------------------------------
(* MatchErrorStack.__str__ and the public tests of Value.                  *)

\* nested _compare calls the interpreter allows before RecursionError
RecursionLimit == 6

\* MatchErrorStack.format_entry, kept as the pieces the text is built from
FormatEntry(vtype, val) == [vtype |-> vtype, val |-> val]

\* MatchErrorStack.format_stack: the lines appended to paths, each the path
\* of entries joined by ' -> ' and the outcome printed after it
RECURSIVE FormatStack(_, _)
RECURSIVE FormatVariants(_, _, _)
FormatVariants(path, name, entries) ==
    IF entries = <<>> THEN <<>>
    ELSE FormatStack(Append(path, [variant |-> name]), Head(entries))
            \o FormatVariants(path, name, Tail(entries))

FormatStack(path, stack) ==
    IF stack = <<>> THEN <<>>
    ELSE LET entry == Head(stack)
         IN  IF entry.len = 3
             THEN <<[path |-> Append(path, FormatEntry(entry.vtype, entry.val)),
                     r |-> entry.r.name]>>
                     \o FormatStack(path, Tail(stack))
             ELSE IF "errors" \in DOMAIN entry.val
             THEN FormatVariants(path, entry.vtype.name.s, entry.val.errors)
                     \o FormatStack(path, Tail(stack))
             ELSE FormatStack(Append(path, FormatEntry(entry.vtype, entry.val)),
                              Tail(stack))

\* str(e) for a MatchErrorStack e
StrOfStack(stack) == [lines |-> FormatStack(<<>>, stack)]

\* the raises argument: None, True, a class or other callable, an instance
RaisesNone        == [kind |-> "None"]
RaisesTrue        == [kind |-> "True"]
RaisesCallable(c) == [kind |-> "callable", cls |-> c]
RaisesInstance(e) == [kind |-> "instance", exc |-> e]

Exception(cls, arg) == [cls |-> cls, arg |-> arg]

Return(b) == [kind |-> "return", val |-> b]
Raise(e)  == [kind |-> "raise", exc |-> e]

\* an exception of _compare that match and the three tests let through
Propagate(c) ==
    Raise(Exception(IF c.kind = "recursion" THEN "RecursionError" ELSE c.cls,
                    [text |-> ""]))

\* Value._failure
Failure(raises, message) ==
    CASE raises.kind = "None"     -> Return(FALSE)
      [] raises.kind = "True"     -> Raise(Exception("MatchError", message))
      [] raises.kind = "callable" -> Raise(Exception(raises.cls, message))
      [] OTHER                    -> Raise(raises.exc)

\* a slip that demands strictly more than match_level
ValueMatchStrict(m, s, actual, raises, match_level) ==
    LET raise_level == IF raises # RaisesNone THEN match_level ELSE NoLevel
        c == Compare(m, actual, raise_level, s, RecursionLimit)
    IN  CASE c.kind = "ok" ->
                IF ResultGt(c.r, match_level) THEN Return(TRUE)
                ELSE Failure(raises, [text |-> "did not match"])
          [] c.kind = "stack" -> Failure(raises, StrOfStack(c.stack))
          [] OTHER -> Propagate(c)

\* Value.match of matcher m attached to suite s
ValueMatch(m, s, actual, raises, match_level) ==
    LET raise_level == IF raises # RaisesNone THEN match_level ELSE NoLevel
        c == Compare(m, actual, raise_level, s, RecursionLimit)
    IN  CASE c.kind = "ok" ->
                IF ResultGe(c.r, match_level) THEN Return(TRUE)
                ELSE Failure(raises, [text |-> "did not match"])
          [] c.kind = "stack" -> Failure(raises, StrOfStack(c.stack))
          [] OTHER -> Propagate(c)

\* the _compare(actual) call of the three tests that take no raises
CompareOnly(m, s, actual) == Compare(m, actual, NoLevel, s, RecursionLimit)

\* Value.has_additional
HasAdditional(m, s, actual) ==
    LET c == CompareOnly(m, s, actual)
    IN  IF c.kind = "ok"
        THEN Return(ResultEq(c.r, ADDITIONAL) \/ ResultEq(c.r, MIXED))
        ELSE Propagate(c)

\* Value.has_defaulted
HasDefaulted(m, s, actual) ==
    LET c == CompareOnly(m, s, actual)
    IN  IF c.kind = "ok"
        THEN Return(ResultEq(c.r, DEFAULTED) \/ ResultEq(c.r, MIXED))
        ELSE Propagate(c)

\* Value.incompatible
Incompatible(m, s, actual) ==
    LET c == CompareOnly(m, s, actual)
    IN  IF c.kind = "ok"
        THEN Return(ResultEq(c.r, INCOMPATIBLE))
        ELSE Propagate(c)

-----------------------------------------------------------------------------
(* The values, matchers and suites the specifications range over.          *)

\* longest list value and most children of an array matcher
MaxValueLen == 2
MaxChildren == 2

\* all sequences over S of length lo..hi
SeqsOf(S, lo, hi) == UNION {[1..n -> S] : n \in lo..hi}

ScalarValues ==
    {VUndef, VBool(TRUE), VBool(FALSE),
     VInt(0), VInt(1), VInt(3), VInt(16),
     VReal(0), VReal(10), VReal(160), VReal(162), VReal(0 - 5), VNaN,
     VStr(""), VStr("true"), VStr("16"), VStr("16.2"), VStr("nan"),
     VStr("bee"), VStr("red"), VStr(DateString), VStr(UUIDString),
     VDate, VUUID, VURI, VBinary}

ElementValues == {VUndef, VInt(1), VStr("red"), VStr("")}

ListValues == {VArray(a) : a \in SeqsOf(ElementValues, 0, MaxValueLen)}

\* dicts over the keys x, y, z, each absent or holding an element value
KeyNames == <<"x", "y", "z">>
RECURSIVE PairsFrom(_, _)
PairsFrom(i, choice) ==
    IF i > Len(KeyNames) THEN <<>>
    ELSE IF choice[i] = [absent |-> TRUE] THEN PairsFrom(i + 1, choice)
    ELSE <<[k |-> KeyNames[i], v |-> choice[i]]>> \o PairsFrom(i + 1, choice)

DictValues ==
    {VMap(PairsFrom(1, c)) :
        c \in [1..Len(KeyNames) ->
                  {[absent |-> TRUE], VInt(1), VStr("red"), VStr("bee")}]}

NestedValues ==
    {VArray(<<VMap(<<[k |-> "x", v |-> VInt(1)]>>)>>),
     VArray(<<VMap(<<[k |-> "x", v |-> VStr("bee")]>>), VArray(<<>>)>>),
     VArray(<<VMap(<<[k |-> "x", v |-> VInt(1)], [k |-> "y", v |-> VInt(1)]>>)>>),
     VArray(<<VInt(1), VInt(1), VStr("bee")>>),
     VMap(<<[k |-> "y", v |-> VArray(<<VInt(1), VInt(1), VInt(1)>>)],
            [k |-> "x", v |-> VArray(<<VInt(1)>>)]>>),
     VMap(<<[k |-> "x", v |-> VMap(<<[k |-> "x", v |-> VStr("red")],
                                     [k |-> "y", v |-> VStr("bee")]>>)]>>)}

Values == ScalarValues \cup ListValues \cup DictValues \cup NestedValues

\* the eleven entries of _Parser._typemap
TypeMap ==
    {Prim(k) : k \in {"undef", "bool", "int", "real", "string", "date",
                      "uuid", "uri", "binary", "true", "false"}}

LeafMatchers ==
    TypeMap \cup {NumberMatcher(0), NumberMatcher(16), NameMatcher("red")}

ChildMatchers ==
    {Prim("int"), Prim("real"), Prim("true"), NameMatcher("red"),
     VariantMatcher("a")}

ArrayMatchers ==
    {ArrayMatcher(vs, rep) :
        vs \in SeqsOf(ChildMatchers, 1, MaxChildren), rep \in BOOLEAN}

MemberNames == {"x", "y"}
MapMatchers ==
    {MapMatcher(<<[name |-> n, value |-> v]>>) :
        n \in MemberNames, v \in ChildMatchers}
    \cup
    {MapMatcher(<<[name |-> ns[1], value |-> v1],
                  [name |-> ns[2], value |-> v2]>>) :
        ns \in {p \in MemberNames \X MemberNames : p[1] # p[2]},
        v1 \in ChildMatchers, v2 \in ChildMatchers}

DictMatchers == {DictMatcher(v) : v \in ChildMatchers}

NestedMatchers ==
    {ArrayMatcher(<<MapMatcher(<<[name |-> "x", value |-> Prim("int")]>>)>>,
                  TRUE),
     MapMatcher(<<[name |-> "x",
                   value |-> ArrayMatcher(<<Prim("int"), Prim("int")>>, FALSE)],
                  [name |-> "y",
                   value |-> ArrayMatcher(<<Prim("int")>>, FALSE)]>>),
     MapMatcher(<<[name |-> "x",
                   value |-> MapMatcher(<<[name |-> "x",
                                           value |-> NameMatcher("red")]>>)]>>),
     MapMatcher(<<[name |-> "x", value |-> Prim("string")],
                  [name |-> "y", value |-> Prim("bool")]>>),
     MapMatcher(<<[name |-> "x", value |-> Prim("date")],
                  [name |-> "y", value |-> Prim("uri")]>>),
     ArrayMatcher(<<Prim("int"), Prim("false")>>, FALSE),
     ArrayMatcher(<<Prim("int"), NumberMatcher(0)>>, FALSE),
     ArrayMatcher(<<Prim("int"), NumberMatcher(16)>>, TRUE),
     MapMatcher(<<[name |-> "x", value |-> Prim("int")],
                  [name |-> "y", value |-> Prim("false")]>>),
     MapMatcher(<<[name |-> "x", value |-> NumberMatcher(0)]>>),
     MapMatcher(<<[name |-> "x", value |-> NumberMatcher(16)]>>),
     DictMatcher(ArrayMatcher(<<Prim("int")>>, TRUE)),
     DictMatcher(MapMatcher(<<[name |-> "x", value |-> NameMatcher("red")]>>)),
     VariantMatcher("a"), VariantMatcher("b"), VariantMatcher("c")}

Matchers ==
    LeafMatchers \cup ArrayMatchers \cup MapMatchers \cup DictMatchers
        \cup NestedMatchers

\* whether a matcher holds a variant matcher somewhere
RECURSIVE HasVariant(_)
HasVariant(m) ==
    CASE m.k = "variant" -> TRUE
      [] m.k = "array" -> \E i \in 1..Len(m.values) : HasVariant(m.values[i])
      [] m.k = "map" ->
            \E i \in 1..Len(m.members) : HasVariant(m.members[i].value)
      [] m.k = "dict" -> HasVariant(m.value)
      [] OTHER -> FALSE

\* self._suite = None: a matcher parse_value built
NoSuite == [attached |-> FALSE]

\* the variant tables of two parsed suites:
\*   &a = { x: "red", y: int }   &a = { x: true }   &a = int
\*   &b = [ &a, ... ]
\*   &c = [ &c ]
\* and
\*   &a = real   &a = { $: int }
\*   &b = { x: &c }              (&c has no definition)
SuiteA ==
    [attached |-> TRUE,
     variants |->
        [n \in {"a", "b", "c"} |->
            IF n = "a"
            THEN <<MapMatcher(<<[name |-> "x", value |-> NameMatcher("red")],
                                [name |-> "y", value |-> Prim("int")]>>),
                   MapMatcher(<<[name |-> "x", value |-> Prim("true")]>>),
                   Prim("int")>>
            ELSE IF n = "b"
            THEN <<ArrayMatcher(<<VariantMatcher("a")>>, TRUE)>>
            ELSE <<ArrayMatcher(<<VariantMatcher("c")>>, FALSE)>>]]

SuiteB ==
    [attached |-> TRUE,
     variants |->
        [n \in {"a", "b"} |->
            IF n = "a"
            THEN <<Prim("real"), DictMatcher(Prim("int"))>>
            ELSE <<MapMatcher(<<[name |-> "x",
                                 value |-> VariantMatcher("c")]>>)>>]]

AttachedSuites == {SuiteA, SuiteB}

\* the raises arguments tried
RaisesArgs ==
    {RaisesNone, RaisesTrue, RaisesCallable("UserWarning"),
     RaisesInstance(Exception("UserWarning", [text |-> "blah"]))}

-----------------------------------------------------------------------------
(* Suite and _Parser.parse_suite.  A suite text is kept as the sequence of *)
(* its top-level definitions, each already split into the pieces the      *)
(* parser reads off it:                                                    *)
(*   [d |-> "resource", name, arrow, bodies]          %% name arrow ...    *)
(*   [d |-> "variant", name, value]                   &name = value        *)
(*   [d |-> "other"]      text that starts neither with %% nor with &      *)

\* Suite.__init__
EmptySuite == [requests |-> <<>>, responses |-> <<>>, variants |-> <<>>]

\* the object the variant matchers of a suite's values point to
SuiteRef(su) == [attached |-> TRUE, variants |-> su.variants]

\* Suite._add_resource
AddResource(su, name, request, response) ==
    [su EXCEPT !.requests  = (name :> request) @@ su.requests,
               !.responses = (name :> response) @@ su.responses]

\* a slip that never finds the name
HasResourceNever(su, name) == FALSE

\* Suite._has_resource
HasResource(su, name) == name \in DOMAIN su.requests

\* 'Resource name ... not found in suite.'
NotFound(name) ==
    Exception("MatchError",
              [text |-> "Resource name not found in suite.", name |-> name])

\* Suite._get_request
GetRequest(su, name) ==
    IF name \in DOMAIN su.requests
    THEN [found |-> TRUE, value |-> su.requests[name]]
    ELSE [found |-> FALSE, exc |-> NotFound(name)]

\* Suite._get_response
GetResponse(su, name) ==
    IF name \in DOMAIN su.responses
    THEN [found |-> TRUE, value |-> su.responses[name]]
    ELSE [found |-> FALSE, exc |-> NotFound(name)]

\* a slip in which a later alternative replaces the earlier ones
AddVariantReplaces(su, name, value) ==
    [su EXCEPT !.variants = (name :> <<value>>) @@ su.variants]

\* Suite._add_variant
AddVariant(su, name, value) ==
    [su EXCEPT !.variants =
        (name :> Append(GetVariantOptions(su, name), value)) @@ su.variants]

\* Value._variants_referenced and its overrides
RECURSIVE VariantsReferenced(_)
VariantsReferenced(m) ==
    CASE m.k = "variant" -> {m.name}
      [] m.k = "array" ->
            UNION {VariantsReferenced(m.values[i]) : i \in 1..Len(m.values)}
      [] m.k = "map" ->
            UNION {VariantsReferenced(m.members[i].value) :
                      i \in 1..Len(m.members)}
      [] m.k = "dict" -> VariantsReferenced(m.value)
      [] OTHER -> {}

\* a slip that forgets the responses
MissingVariantsRequestsOnly(su) ==
    UNION {VariantsReferenced(su.requests[n]) : n \in DOMAIN su.requests}
        \ DOMAIN su.variants

\* Suite._missing_variants
MissingVariants(su) ==
    (UNION {VariantsReferenced(su.requests[n]) : n \in DOMAIN su.requests}
     \cup
     UNION {VariantsReferenced(su.responses[n]) : n \in DOMAIN su.responses})
        \ DOMAIN su.variants

\* a slip that lets a failed lookup go through _failure like a mismatch
SuiteCallLenient(got, su, actual, raises, match_level) ==
    IF ~got.found THEN Failure(raises, got.exc.arg)
    ELSE ValueMatch(got.value, SuiteRef(su), actual, raises, match_level)

\* self._get_request(name).match(*args, **kwargs) and its three siblings:
\* the lookup runs first and its MatchError propagates
SuiteCall(got, su, actual, raises, match_level) ==
    IF ~got.found THEN Raise(got.exc)
    ELSE ValueMatch(got.value, SuiteRef(su), actual, raises, match_level)

\* ParseError raised by self.error(msg) while reading definition number at;
\* names are the variant names the message lists, in the order joined
ParseError(msg, names, at) ==
    [kind |-> "ParseError", msg |-> msg, names |-> names, at |-> at]

\* a slip that takes the body of << for the request and of >> for the
\* response
ParseRestOfResourceSwapped(def) ==
    LET body == def.bodies[1]
    IN  CASE def.arrow = "->"  ->
                [ok |-> TRUE, req |-> body, res |-> def.bodies[2]]
          [] def.arrow = "<<"  ->
                [ok |-> TRUE, req |-> body, res |-> Prim("undef")]
          [] def.arrow = ">>"  ->
                [ok |-> TRUE, req |-> Prim("undef"), res |-> body]
          [] def.arrow \in {"<>", "<x>"} ->
                [ok |-> TRUE, req |-> body, res |-> body]
          [] OTHER             -> [ok |-> FALSE]

\* _parse_rest_of_resource, after the name: the (req, res) pair for the
\* arrow read, or no pair when the arrow is none of the five
ParseRestOfResource(def) ==
    LET body == def.bodies[1]
    IN  CASE def.arrow = "->"  ->
                [ok |-> TRUE, req |-> body, res |-> def.bodies[2]]
          [] def.arrow = "<<"  ->
                [ok |-> TRUE, req |-> Prim("undef"), res |-> body]
          [] def.arrow = ">>"  ->
                [ok |-> TRUE, req |-> body, res |-> Prim("undef")]
          [] def.arrow = "<>"  -> [ok |-> TRUE, req |-> body, res |-> body]
          [] def.arrow = "<x>" -> [ok |-> TRUE, req |-> body, res |-> body]
          [] OTHER             -> [ok |-> FALSE]

\* the orders in which iterating a set of names can yield them
Orderings(S) ==
    {f \in [1..Cardinality(S) -> S] : {f[i] : i \in 1..Cardinality(S)} = S}

\* most definitions in a suite text
MaxDefs == 3

ResourceDef(name, arrow, bodies) ==
    [d |-> "resource", name |-> name, arrow |-> arrow, bodies |-> bodies]
VariantDef(name, value) == [d |-> "variant", name |-> name, value |-> value]
OtherText == [d |-> "other"]

\*   %% r1 -> &a <- int          %% r1 << [ &a, ... ]
\*   %% r2 >> { x: &b }          %% r2 <> int
\*   %% r1 <x> { x: int }        %% r2 => int      (no such arrow)
\*   &a = int     &a = { x: "red" }     &b = [ &c ]
Definitions ==
    {ResourceDef("r1", "->", <<VariantMatcher("a"), Prim("int")>>),
     ResourceDef("r1", "<<", <<ArrayMatcher(<<VariantMatcher("a")>>, TRUE)>>),
     ResourceDef("r2", ">>",
        <<MapMatcher(<<[name |-> "x", value |-> VariantMatcher("b")]>>)>>),
     ResourceDef("r2", "<>", <<Prim("int")>>),
     ResourceDef("r1", "<x>",
        <<MapMatcher(<<[name |-> "x", value |-> Prim("int")]>>)>>),
     ResourceDef("r2", "=>", <<Prim("int")>>),
     VariantDef("a", Prim("int")),
     VariantDef("a", MapMatcher(<<[name |-> "x", value |-> NameMatcher("red")]>>)),
     VariantDef("b", ArrayMatcher(<<VariantMatcher("c")>>, FALSE))}

\* suite texts: up to MaxDefs definitions, then the end of the text or
\* something that is no definition
Texts ==
    LET defs == SeqsOf(Definitions, 0, MaxDefs)
    IN  defs \cup {Append(t, OtherText) : t \in defs}

QueryNames  == {"r1", "r2", "nonexistent"}
QueryValues ==
    {VUndef, VInt(1), VStr("bee"), VArray(<<VInt(1)>>),
     VMap(<<[k |-> "x", v |-> VStr("red")]>>)}

-----------------------------------------------------------------------------
(* Lattice specification: the operands range over all six outcomes and    *)
(* each action applies one _Result operation to them.                      *)

NoResult == [value |-> 0 - 1, name |-> "none"]

QueriesIdle == history = <<>>

\* _Parser.__init__
NewParser == [offset |-> 0, line |-> 0, lineoffset |-> 0]

ParseIdle ==
    /\ source = <<>> /\ scanner = NewParser /\ parsed = [kind |-> "none"]

\* Config(None): no file, nothing set
ConfigIdle ==
    /\ cfg = [filename |-> FALSE, last_check_time |-> 0, last_mod_time |-> 0,
              config_overrides |-> <<>>, config_file_dict |-> <<>>,
              combined_dict |-> <<>>]
    /\ cfile = [exists |-> FALSE]
    /\ now = 0 /\ ticks = 0
    /\ cget = [kind |-> "none"]
    /\ lastset = <<>>

ExtraIdle == QueriesIdle /\ ParseIdle /\ ConfigIdle

LatticeIdle ==
    /\ opA = MATCHED /\ opB = MATCHED /\ opC = MATCHED
    /\ lop = "none" /\ lres = NoResult

MatchIdle ==
    /\ matcher = Prim("undef") /\ msuite = [attached |-> FALSE]
    /\ given = VUndef
    /\ call = [fn |-> "none"] /\ ret = [kind |-> "none"]

SuiteIdle ==
    /\ text = <<>> /\ pos = 0
    /\ suite = EmptySuite
    /\ presult = [kind |-> "running"]
    /\ query = [fn |-> "none"] /\ qret = [kind |-> "none"]

LatticeInit ==
    /\ opA \in Results /\ opB \in Results /\ opC \in Results
    /\ lop = "none" /\ lres = NoResult
    /\ MatchIdle /\ SuiteIdle /\ ExtraIdle

DoAnd ==
    /\ lop = "none"
    /\ lop' = "and" /\ lres' = ResultAnd(opA, opB)
    /\ UNCHANGED <<opA, opB, opC, matchVars, suiteVars,
                 extraVars>>

DoOr ==
    /\ lop = "none"
    /\ lop' = "or" /\ lres' = ResultOr(opA, opB)
    /\ UNCHANGED <<opA, opB, opC, matchVars, suiteVars,
                 extraVars>>

DoCompare ==
    /\ lop = "none"
    /\ lop' = "cmp" /\ lres' = Comparisons(opA, opB)
    /\ UNCHANGED <<opA, opB, opC, matchVars, suiteVars,
                 extraVars>>

DoAndFold ==
    /\ lop = "none"
    /\ lop' = "fold" /\ lres' = AndFold(MATCHED, <<opA, opB, opC>>)
    /\ UNCHANGED <<opA, opB, opC, matchVars, suiteVars,
                 extraVars>>

LatticeNext == DoAnd \/ DoOr \/ DoCompare \/ DoAndFold

SpecLattice == LatticeInit /\ [][LatticeNext]_vars

-----------------------------------------------------------------------------
(* Match specification: one matcher, the suite it is attached to and one   *)
(* value; each action is one call of a public test of Value, made on a     *)
(* matcher no test has been called on yet.                                 *)

\* the default match_level of Value.match and of Value.valid
MatchDefaultLevel == CONVERTED
ValidDefaultLevel == MIXED

MatchInit ==
    /\ matcher \in Matchers
    /\ msuite \in IF HasVariant(matcher) THEN {NoSuite} \cup AttachedSuites
                  ELSE {NoSuite}
    /\ given \in Values
    /\ call = [fn |-> "none"] /\ ret = [kind |-> "none"]
    /\ LatticeIdle /\ SuiteIdle /\ ExtraIdle

DoMatch ==
    \E raises \in RaisesArgs :
        /\ call.fn = "none"
        /\ call' = [fn |-> "match", raises |-> raises,
                    match_level |-> MatchDefaultLevel]
        /\ ret' = ValueMatch(matcher, msuite, given, raises, MatchDefaultLevel)
        /\ UNCHANGED <<matcher, msuite, given, latticeVars, suiteVars,
                     extraVars>>

DoValid ==
    \E raises \in RaisesArgs :
        /\ call.fn = "none"
        /\ call' = [fn |-> "valid", raises |-> raises,
                    match_level |-> ValidDefaultLevel]
        /\ ret' = ValueMatch(matcher, msuite, given, raises, ValidDefaultLevel)
        /\ UNCHANGED <<matcher, msuite, given, latticeVars, suiteVars,
                     extraVars>>

DoHasAdditional ==
    /\ call.fn = "none"
    /\ call' = [fn |-> "has_additional"]
    /\ ret' = HasAdditional(matcher, msuite, given)
    /\ UNCHANGED <<matcher, msuite, given, latticeVars, suiteVars,
                     extraVars>>

DoHasDefaulted ==
    /\ call.fn = "none"
    /\ call' = [fn |-> "has_defaulted"]
    /\ ret' = HasDefaulted(matcher, msuite, given)
    /\ UNCHANGED <<matcher, msuite, given, latticeVars, suiteVars,
                     extraVars>>

DoIncompatible ==
    /\ call.fn = "none"
    /\ call' = [fn |-> "incompatible"]
    /\ ret' = Incompatible(matcher, msuite, given)
    /\ UNCHANGED <<matcher, msuite, given, latticeVars, suiteVars,
                     extraVars>>

\* the raise_level arguments _compare is called with: None by the three
\* tests and by match without raises, match_level by match with raises
RaiseLevels == {NoLevel, MatchDefaultLevel, ValidDefaultLevel}

\* self._compare(actual, raise_level=raise_level), the call every public
\* test makes first
DoValueCompare ==
    \E raise_level \in RaiseLevels :
        /\ call.fn = "none"
        /\ call' = [fn |-> "_compare", raise_level |-> raise_level]
        /\ ret' = Compare(matcher, given, raise_level, msuite, RecursionLimit)
        /\ UNCHANGED <<matcher, msuite, given, latticeVars, suiteVars,
                     extraVars>>

MatchNext ==
    \/ DoMatch \/ DoValid \/ DoHasAdditional \/ DoHasDefaulted
    \/ DoIncompatible \/ DoValueCompare

SpecMatch == MatchInit /\ [][MatchNext]_vars

-----------------------------------------------------------------------------
(* Suite specification: parse_suite reads the text one definition at a     *)
(* time, runs the completeness check, and the Suite it returns is queried. *)

SuiteInit ==
    /\ text \in Texts /\ pos = 0
    /\ suite = EmptySuite
    /\ presult = [kind |-> "running"]
    /\ query = [fn |-> "none"] /\ qret = [kind |-> "none"]
    /\ LatticeIdle /\ MatchIdle /\ ExtraIdle

\* the loop of parse_suite is at a definition of the given kind
AtDefinition(d) ==
    /\ presult.kind = "running"
    /\ pos < Len(text)
    /\ text[pos + 1].d = d

\* parse_suite: parse_literal('%%') matched; _parse_rest_of_resource
ParseResource ==
    /\ AtDefinition("resource")
    /\ LET def == text[pos + 1]
           p == ParseRestOfResource(def)
       IN  IF HasResource(suite, def.name)
           THEN /\ presult' = ParseError("duplicate resource name", <<>>,
                                         pos + 1)
                /\ UNCHANGED <<pos, suite>>
           ELSE IF ~p.ok
           THEN /\ presult' = ParseError("unknown resource type", <<>>,
                                         pos + 1)
                /\ UNCHANGED <<pos, suite>>
           ELSE /\ suite' = AddResource(suite, def.name, p.req, p.res)
                /\ pos' = pos + 1
                /\ UNCHANGED presult
    /\ UNCHANGED <<text, query, qret, latticeVars, matchVars,
                 extraVars>>

\* parse_suite: parse_literal('&') matched; _parse_rest_of_variant
ParseVariant ==
    /\ AtDefinition("variant")
    /\ suite' = AddVariant(suite, text[pos + 1].name, text[pos + 1].value)
    /\ pos' = pos + 1
    /\ UNCHANGED <<text, presult, query, qret, latticeVars, matchVars,
                 extraVars>>

\* parse_suite: the loop breaks; the completeness check, then the
\* 'expected end of input' check of the module-level parse_suite
ParseFinish ==
    /\ presult.kind = "running"
    /\ IF pos < Len(text) THEN text[pos + 1].d = "other" ELSE TRUE
    /\ LET missing == MissingVariants(suite)
       IN  IF missing # {}
           THEN \E names \in Orderings(missing) :
                   presult' = ParseError("missing definitions of variants",
                                         names, pos + 1)
           ELSE IF pos < Len(text)
           THEN presult' = ParseError("expected end of input", <<>>, pos + 1)
           ELSE presult' = [kind |-> "suite"]
    /\ UNCHANGED <<text, pos, suite, query, qret, latticeVars, matchVars,
                 extraVars>>

\* a query on the Suite parse_suite returned
Query(fn, name, value, raises, result) ==
    /\ presult.kind = "suite"
    /\ query.fn = "none"
    /\ query' = [fn |-> fn, name |-> name, value |-> value, raises |-> raises]
    /\ qret' = result
    /\ UNCHANGED <<text, pos, suite, presult, latticeVars, matchVars,
                 extraVars>>

MatchRequest ==
    \E name \in QueryNames, value \in QueryValues, raises \in RaisesArgs :
        Query("match_request", name, value, raises,
              SuiteCall(GetRequest(suite, name), suite, value, raises,
                        MatchDefaultLevel))

MatchResponse ==
    \E name \in QueryNames, value \in QueryValues, raises \in RaisesArgs :
        Query("match_response", name, value, raises,
              SuiteCall(GetResponse(suite, name), suite, value, raises,
                        MatchDefaultLevel))

ValidRequest ==
    \E name \in QueryNames, value \in QueryValues, raises \in RaisesArgs :
        Query("valid_request", name, value, raises,
              SuiteCall(GetRequest(suite, name), suite, value, raises,
                        ValidDefaultLevel))

ValidResponse ==
    \E name \in QueryNames, value \in QueryValues, raises \in RaisesArgs :
        Query("valid_response", name, value, raises,
              SuiteCall(GetResponse(suite, name), suite, value, raises,
                        ValidDefaultLevel))

SuiteNext ==
    \/ ParseResource \/ ParseVariant \/ ParseFinish
    \/ MatchRequest \/ MatchResponse \/ ValidRequest \/ ValidResponse

SpecSuite == SuiteInit /\ [][SuiteNext]_vars

-----------------------------------------------------------------------------
(* Properties of the lattice, checked under SpecLattice.                   *)

\* the rank tier the specification gives each outcome
Tier(o) ==
    CASE o.name = "MATCHED"      -> 4
      [] o.name = "CONVERTED"    -> 3
      [] o.name = "ADDITIONAL"   -> 2
      [] o.name = "DEFAULTED"    -> 2
      [] o.name = "MIXED"        -> 1
      [] o.name = "INCOMPATIBLE" -> 0

\* C1: AND(a, b) is the lower-ranked operand when a and b lie in different
\* rank tiers, is a itself when a and b are the same outcome, and is MIXED
\* when one is ADDITIONAL and the other DEFAULTED, in either operand order.
C1_AndTable ==
    lop = "and" =>
        /\ Tier(opA) < Tier(opB) => lres = opA
        /\ Tier(opB) < Tier(opA) => lres = opB
        /\ opA = opB => lres = opA
        /\ (opA = ADDITIONAL /\ opB = DEFAULTED) => lres = MIXED
        /\ (opA = DEFAULTED /\ opB = ADDITIONAL) => lres = MIXED

C1_Witness ==
    lop = "and" /\ opA = DEFAULTED /\ opB = ADDITIONAL /\ lres = MIXED

\* C2: every outcome of a higher tier compares strictly greater than every
\* outcome of a lower tier (and the lower one strictly less), under all five
\* comparison operators.
C2_TierOrder ==
    lop = "cmp" =>
        /\ Tier(opA) > Tier(opB) =>
              lres.gt /\ lres.ge /\ ~lres.lt /\ ~lres.le /\ ~lres.eq
        /\ Tier(opA) < Tier(opB) =>
              lres.lt /\ lres.le /\ ~lres.gt /\ ~lres.ge /\ ~lres.eq

C2_Witness ==
    lop = "cmp" /\ opA = CONVERTED /\ opB = ADDITIONAL /\ lres.gt /\ ~lres.lt

\* C3 as stated: ADDITIONAL == DEFAULTED is false, both are >= MIXED, and
\* neither ADDITIONAL < DEFAULTED nor DEFAULTED < ADDITIONAL is true.
C3_Incomparable ==
    lop = "cmp" =>
        /\ (opA \in {ADDITIONAL, DEFAULTED} /\ opB = MIXED) => lres.ge
        /\ ({opA, opB} = {ADDITIONAL, DEFAULTED}) => (~lres.eq /\ ~lres.lt)

\* C3 as amended: ADDITIONAL == DEFAULTED is false, both are >= MIXED, and
\* the comparison operators order the two by their raw values:
\* ADDITIONAL < DEFAULTED is true and DEFAULTED < ADDITIONAL is false.
C3_OrderedSiblings ==
    lop = "cmp" =>
        /\ (opA \in {ADDITIONAL, DEFAULTED} /\ opB = MIXED) => lres.ge
        /\ ({opA, opB} = {ADDITIONAL, DEFAULTED}) => ~lres.eq
        /\ (opA = ADDITIONAL /\ opB = DEFAULTED) =>
              (lres.lt /\ lres.le /\ ~lres.gt /\ ~lres.ge)
        /\ (opA = DEFAULTED /\ opB = ADDITIONAL) =>
              (~lres.lt /\ ~lres.le /\ lres.gt /\ lres.ge)

C3_Witness ==
    lop = "cmp" /\ opA = ADDITIONAL /\ opB = DEFAULTED /\ lres.lt /\ ~lres.eq

\* C4: AND is commutative over all 36 operand pairs and its result is <=
\* both operands under the outcome ordering.
C4_AndCommutesAndLowers ==
    lop = "and" =>
        /\ lres = ResultAnd(opB, opA)
        /\ ResultLe(lres, opA)
        /\ ResultLe(lres, opB)

C4_Witness ==
    lop = "and" /\ opA = ADDITIONAL /\ opB = DEFAULTED
        /\ lres = MIXED /\ ResultAnd(opB, opA) = MIXED

\* C5: OR is commutative over all 36 operand pairs, returns one of its two
\* operands, and its result is >= both operands under the outcome ordering.
C5_OrCommutesAndRaises ==
    lop = "or" =>
        /\ lres = ResultOr(opB, opA)
        /\ lres \in {opA, opB}
        /\ ResultGe(lres, opA)
        /\ ResultGe(lres, opB)

C5_Witness ==
    lop = "or" /\ opA = ADDITIONAL /\ opB = DEFAULTED /\ lres = DEFAULTED

-----------------------------------------------------------------------------
(* Properties of Value.match and Value.valid, checked under SpecMatch.     *)

\* the outcome _compare gives the matcher and value of the current state
\* when no raise level is set
Outcome == CompareOnly(matcher, msuite, given)

IsMatchCall == call.fn \in {"match", "valid"}

WithoutRaises ==
    ValueMatch(matcher, msuite, given, RaisesNone, call.match_level)

\* C7: when raises is supplied, match / valid raises if and only if the same
\* call without raises would return False, and returns True otherwise; the
\* raised object is a MatchError for True, the result of calling the class
\* or callable with the diagnostic string, or the supplied instance itself.
\* (Stated of the calls whose comparison ends in an outcome or a mismatch;
\* an exception of another kind leaving _compare is not a mismatch.)
C7_RaisesIffFalse ==
    (IsMatchCall /\ call.raises # RaisesNone /\ Outcome.kind = "ok") =>
        /\ WithoutRaises.kind = "return"
        /\ WithoutRaises.val = FALSE <=> ret.kind = "raise"
        /\ WithoutRaises.val = TRUE <=> ret = Return(TRUE)
        /\ ret.kind = "raise" =>
              /\ call.raises = RaisesTrue =>
                    /\ ret.exc.cls = "MatchError"
                    /\ \/ ret.exc.arg = [text |-> "did not match"]
                       \/ "lines" \in DOMAIN ret.exc.arg
              /\ call.raises.kind = "callable" =>
                    /\ ret.exc.cls = call.raises.cls
                    /\ \/ ret.exc.arg = [text |-> "did not match"]
                       \/ "lines" \in DOMAIN ret.exc.arg
              /\ call.raises.kind = "instance" => ret.exc = call.raises.exc

\* a variant none of whose alternatives reaches the level raises through
\* the supplied instance
C7_Witness ==
    /\ call.fn = "match" /\ call.raises.kind = "instance"
    /\ matcher = VariantMatcher("a") /\ msuite = SuiteA
    /\ given = VStr("bee")
    /\ WithoutRaises = Return(FALSE)
    /\ ret = Raise(call.raises.exc)

-----------------------------------------------------------------------------
(* Properties of the Suite and of parse_suite, checked under SpecSuite.    *)

\* C8: match_request, match_response, valid_request and valid_response
\* called with a resource name the Suite does not define always raise the
\* 'not found' MatchError, whatever the value and the raises argument
\* (None included); they never return False for an unknown name.
C8_UnknownNameRaises ==
    (query.fn # "none" /\ query.name \notin DOMAIN suite.requests) =>
        /\ qret.kind = "raise"
        /\ qret.exc.cls = "MatchError"
        /\ qret.exc.arg = [text |-> "Resource name not found in suite.",
                           name |-> query.name]

\* an unknown name asked of a Suite that defines another resource, with
\* raises left at None
C8_Witness ==
    /\ query.fn = "valid_response" /\ query.raises = RaisesNone
    /\ query.name = "r2" /\ DOMAIN suite.requests = {"r1"}
    /\ qret.kind = "raise"

\* the variant names referenced by any matcher of a Suite: in a request
\* tree, in a response tree or inside an alternative of a variant
AllVariantsReferenced(su) ==
    UNION {VariantsReferenced(su.requests[n]) : n \in DOMAIN su.requests}
    \cup
    UNION {VariantsReferenced(su.responses[n]) : n \in DOMAIN su.responses}
    \cup
    UNION {UNION {VariantsReferenced(su.variants[n][i]) :
                     i \in 1..Len(su.variants[n])} : n \in DOMAIN su.variants}

\* C9: after parse_suite returns successfully, every Variant matcher
\* anywhere in the Suite (request tree, response tree, alternative of a
\* variant definition) references a name with at least one alternative in
\* the Suite's variant mapping.
C9_EveryVariantDefined ==
    presult.kind = "suite" =>
        \A n \in AllVariantsReferenced(suite) :
            n \in DOMAIN suite.variants /\ Len(suite.variants[n]) >= 1

\* the variant names the resources of the text reference and no variant
\* definition of the text defines
TextUndefinedVariants ==
    UNION {UNION {VariantsReferenced(text[i].bodies[j]) :
                     j \in 1..Len(text[i].bodies)} :
              i \in {j \in 1..Len(text) : text[j].d = "resource"}}
    \ {text[i].name : i \in {j \in 1..Len(text) : text[j].d = "variant"}}

\* the number of definitions in the text
NumDefinitions == Cardinality({i \in 1..Len(text) : text[i].d # "other"})

\* C10: parse_suite on a text in which a resource's request or response
\* references a variant name that no variant definition of the text defines
\* raises a ParseError and returns no Suite; once every definition of the
\* text has been read, that error is the completeness check's and its
\* message names each missing variant.
C10_MissingVariantIsParseError ==
    (presult.kind # "running" /\ TextUndefinedVariants # {}) =>
        /\ presult.kind = "ParseError"
        /\ pos = NumDefinitions =>
              /\ presult.msg = "missing definitions of variants"
              /\ {presult.names[i] : i \in 1..Len(presult.names)}
                    = TextUndefinedVariants

\* the missing name is referenced only by a response, and a definition of
\* another variant is present
C10_Witness ==
    /\ presult.kind = "ParseError"
    /\ presult.msg = "missing definitions of variants"
    /\ presult.names = <<"a">>
    /\ \E i \in 1..Len(text) : text[i].d = "resource" /\ text[i].arrow = "<<"
    /\ \E i \in 1..Len(text) : text[i].d = "variant" /\ text[i].name = "b"
    /\ DOMAIN suite.requests = {"r1"}

-----------------------------------------------------------------------------
(* Properties of the variant, map and array matchers.                      *)

\* the best of r and the outcomes xs, taken left to right with |
RECURSIVE OrFold(_, _)
OrFold(r, xs) ==
    IF xs = <<>> THEN r ELSE OrFold(ResultOr(r, Head(xs)), Tail(xs))

\* the values of the '&n = value' definitions read so far, in text order
AlternativesInText(n) ==
    LET IsAlt(d) == d.d = "variant" /\ d.name = n
        alts == SelectSeq(SubSeq(text, 1, pos), IsAlt)
    IN  [i \in 1..Len(alts) |-> alts[i].value]

VariantNames == {"a", "b", "c"}

\* the outcomes of the alternatives of &n for value v, each compared on
\* its own
AlternativeOutcomes(n, v) ==
    LET alts == AlternativesInText(n)
    IN  [i \in 1..Len(alts) |-> CompareOnly(alts[i], SuiteRef(suite), v).r]

\* the matcher a query looked up
QueryMatcher ==
    IF query.fn \in {"match_request", "valid_request"}
    THEN GetRequest(suite, query.name) ELSE GetResponse(suite, query.name)

QueryLevel ==
    IF query.fn \in {"match_request", "match_response"}
    THEN MatchDefaultLevel ELSE ValidDefaultLevel

\* C11: in the Suite parse_suite returns, the alternatives registered under
\* a variant name are the definitions of that name in declaration order,
\* wherever in the text they stand relative to the resources; a Variant matcher's
\* outcome is the OR-fold of the alternatives' outcomes, which is the best
\* of them, and INCOMPATIBLE when the name has no alternative or when no
\* Suite is attached.  A query on a resource whose matcher is a variant
\* answers by that outcome.  (The Suite is the same before and after a
\* query, so its variants are examined as parse_suite returns it.)
C11_VariantIsOrFold ==
    presult.kind = "suite" =>
        /\ query.fn = "none" =>
           \A n \in VariantNames, v \in QueryValues :
              LET outs == AlternativeOutcomes(n, v)
                  fold == OrFold(INCOMPATIBLE, outs)
                  got  == CompareOnly(VariantMatcher(n), SuiteRef(suite), v)
              IN  /\ GetVariantOptions(SuiteRef(suite), n)
                        = AlternativesInText(n)
                  /\ got = Ok(fold)
                  /\ \A i \in 1..Len(outs) : ResultGe(got.r, outs[i])
                  /\ got.r = INCOMPATIBLE
                        \/ \E i \in 1..Len(outs) : got.r = outs[i]
                  /\ outs = <<>> => got = Ok(INCOMPATIBLE)
                  /\ CompareOnly(VariantMatcher(n), NoSuite, v)
                        = Ok(INCOMPATIBLE)
        /\ (/\ query.fn # "none" /\ query.raises = RaisesNone
            /\ QueryMatcher.found /\ QueryMatcher.value.k = "variant") =>
              qret = Return(ResultGe(
                        OrFold(INCOMPATIBLE,
                               AlternativeOutcomes(QueryMatcher.value.name,
                                                   query.value)),
                        QueryLevel))

\* the second alternative of &a, defined after the resource that refers to
\* it, is the one that accepts the request
C11_Witness ==
    /\ presult.kind = "suite"
    /\ text = <<ResourceDef("r1", "->", <<VariantMatcher("a"), Prim("int")>>),
                VariantDef("a", Prim("int")),
                VariantDef("a", MapMatcher(<<[name |-> "x",
                                             value |-> NameMatcher("red")]>>))>>
    /\ query.fn = "match_request" /\ query.name = "r1"
    /\ query.raises = RaisesNone
    /\ query.value = VMap(<<[k |-> "x", v |-> VStr("red")]>>)
    /\ qret = Return(TRUE)

\* a _compare call made with raise_level None has returned
ComparedPlain == call.fn = "_compare" /\ call.raise_level = NoLevel

\* the kinds of the primitive types other than undef
PrimitiveKinds ==
    {"bool", "int", "real", "string", "date", "uuid", "uri", "binary"}

\* the mapping a map matcher works on: undefined counts as the empty one
GivenPairs == IF given = VUndef THEN <<>> ELSE given.m

\* the outcome of each declared member of a map matcher, an absent key
\* compared as undefined
MemberOutcomes ==
    [i \in 1..Len(matcher.members) |->
        CompareOnly(matcher.members[i].value, msuite,
                    IF HasKey(GivenPairs, matcher.members[i].name)
                    THEN GetKey(GivenPairs, matcher.members[i].name)
                    ELSE VUndef).r]

MissingMember ==
    \E i \in 1..Len(matcher.members) :
        ~HasKey(GivenPairs, matcher.members[i].name)

UndeclaredKey ==
    \E j \in 1..Len(GivenPairs) :
        \A i \in 1..Len(matcher.members) :
            matcher.members[i].name # GivenPairs[j].k

\* every member that is present matches or converts
PresentMembersMatch ==
    \A i \in 1..Len(matcher.members) :
        HasKey(GivenPairs, matcher.members[i].name)
            => ResultGe(MemberOutcomes[i], CONVERTED)

\* C12: a fixed map matcher treats undefined as the empty mapping and
\* rejects a non-mapping as INCOMPATIBLE; otherwise its outcome is the
\* AND-fold of the declared members' outcomes (an absent key compared as
\* undefined), with ADDITIONAL folded in when the value has an undeclared
\* key.  With primitive non-undef members whose present values match: a
\* missing member gives DEFAULTED, only extra keys give ADDITIONAL, both
\* give MIXED.
C12_MapIsAndFold ==
    (ComparedPlain /\ matcher.k = "map") =>
        IF given.t \notin {"undef", "map"} THEN ret = Ok(INCOMPATIBLE)
        ELSE /\ ret = Ok(AndFold(MATCHED,
                            MemberOutcomes \o (IF UndeclaredKey
                                               THEN <<ADDITIONAL>> ELSE <<>>)))
             /\ given = VUndef =>
                    ret = CompareOnly(matcher, msuite, VMap(<<>>))
             /\ (/\ \A i \in 1..Len(matcher.members) :
                        matcher.members[i].value.k \in PrimitiveKinds
                 /\ PresentMembersMatch) =>
                    /\ (MissingMember /\ ~UndeclaredKey) => ret = Ok(DEFAULTED)
                    /\ (~MissingMember /\ UndeclaredKey) => ret = Ok(ADDITIONAL)
                    /\ (MissingMember /\ UndeclaredKey) => ret = Ok(MIXED)

\* one member present, one missing, one key undeclared
C12_Witness ==
    /\ ComparedPlain
    /\ matcher = MapMatcher(<<[name |-> "x", value |-> Prim("int")],
                              [name |-> "y", value |-> Prim("real")]>>)
    /\ given = VMap(<<[k |-> "x", v |-> VInt(1)], [k |-> "z", v |-> VStr("bee")]>>)
    /\ ret = Ok(MIXED)

\* the sequence an array matcher works on: undefined counts as the empty one
GivenList == IF given = VUndef THEN <<>> ELSE given.a

\* the outcomes of positions 0 .. n-1 of the input, position i compared
\* with child i mod vlen and taken as undefined from the input's end on
PositionOutcomes(n) ==
    [j \in 1..n |->
        CompareOnly(matcher.values[((j - 1) % Len(matcher.values)) + 1], msuite,
                    IF j <= Len(GivenList) THEN GivenList[j] ELSE VUndef).r]

\* every element of the input is an integer
IntegerElements ==
    \A j \in 1..Len(GivenList) : GivenList[j].t = "int"

\* every child of the array matcher is the type int
IntChildren ==
    \A i \in 1..Len(matcher.values) : matcher.values[i] = Prim("int")

\* C13: a non-repeating array matcher with vlen children compares exactly
\* positions 0 .. vlen-1 of the input (undefined from the input's end on,
\* an undefined input being the empty sequence), none at index vlen or
\* beyond, and folds ADDITIONAL in exactly when the input is longer than
\* vlen.  With int children and integer elements a shorter input gives
\* DEFAULTED, one of equal length MATCHED, a longer one ADDITIONAL.
C13_FixedArrayPositions ==
    (ComparedPlain /\ matcher.k = "array" /\ ~matcher.repeating
        /\ given.t \in {"undef", "array"}) =>
        LET vlen == Len(matcher.values)
            alen == Len(GivenList)
        IN  /\ ret = Ok(AndFold(MATCHED,
                           (IF alen > vlen THEN <<ADDITIONAL>> ELSE <<>>)
                               \o PositionOutcomes(vlen)))
            /\ (IntChildren /\ IntegerElements) =>
                   /\ alen < vlen => ret = Ok(DEFAULTED)
                   /\ alen = vlen => ret = Ok(MATCHED)
                   /\ alen > vlen => ret = Ok(ADDITIONAL)

\* the third element, which no child would accept, is never compared
C13_Witness ==
    /\ ComparedPlain
    /\ matcher = ArrayMatcher(<<Prim("int"), Prim("int")>>, FALSE)
    /\ given = VArray(<<VInt(1), VInt(1), VStr("bee")>>)
    /\ ret = Ok(ADDITIONAL)

\* alen rounded up to the next multiple of vlen
NextMultiple(alen, vlen) ==
    CHOOSE t \in 0..(alen + vlen) :
        t % vlen = 0 /\ t >= alen /\ t - alen < vlen

\* C14: a repeating array matcher with vlen children, given an input of
\* length alen, compares exactly T positions, T being alen rounded up to
\* the next multiple of vlen (none for an empty or undefined input, which
\* gives MATCHED); position i goes to child i mod vlen and is undefined
\* for alen <= i < T; the array adds no ADDITIONAL of its own whatever
\* the length, so the result has additional data only if some compared
\* position has.
C14_RepeatingArrayPositions ==
    (ComparedPlain /\ matcher.k = "array" /\ matcher.repeating
        /\ given.t \in {"undef", "array"}) =>
        LET vlen == Len(matcher.values)
            alen == Len(GivenList)
            T    == NextMultiple(alen, vlen)
        IN  /\ ret = Ok(AndFold(MATCHED, PositionOutcomes(T)))
            /\ alen = 0 => T = 0 /\ ret = Ok(MATCHED)
            /\ ret.r \in {ADDITIONAL, MIXED} =>
                   \E j \in 1..T : PositionOutcomes(T)[j] \in {ADDITIONAL, MIXED}
            /\ (\A i \in 1..vlen : matcher.values[i].k \in PrimitiveKinds)
                   => ret.r \notin {ADDITIONAL, MIXED}

\* one element for two children: the second position is compared as
\* undefined
C14_Witness ==
    /\ ComparedPlain
    /\ matcher = ArrayMatcher(<<Prim("int"), Prim("real")>>, TRUE)
    /\ given = VArray(<<VInt(1)>>)
    /\ ret = Ok(DEFAULTED)

\* the number of positions an array matcher compares
PositionsCompared ==
    IF matcher.repeating
    THEN NextMultiple(Len(GivenList), Len(matcher.values))
    ELSE Len(matcher.values)

\* the child a position is compared with
ChildAt(j) == matcher.values[((j - 1) % Len(matcher.values)) + 1]

\* the compared positions that lie beyond the input's end
MissingPositions == (Len(GivenList) + 1)..PositionsCompared

\* every element the input has is compatible with its position
PresentElementsCompatible ==
    \A j \in 1..Len(GivenList) :
        j <= PositionsCompared
            => PositionOutcomes(PositionsCompared)[j] # INCOMPATIBLE

\* an input sequence shorter than the declared children has been compared
ShortInputCompared ==
    /\ ComparedPlain /\ matcher.k = "array" /\ given.t = "array"
    /\ Len(given.a) < Len(matcher.values)
    /\ PresentElementsCompatible

\* a selector whose literal is not the default of its kind
NonDefaultSelector(m) ==
    \/ m.k = "true"
    \/ m.k = "number" /\ m.number # 0
    \/ m.k = "name" /\ m.name # ""

\* a primitive type other than undef, or a selector of the default literal
DefaultingChild(m) ==
    \/ m.k \in PrimitiveKinds
    \/ m.k = "false"
    \/ m.k = "number" /\ m.number = 0

\* C15 as stated: for every array matcher and every input sequence shorter
\* than the declared children whose present elements are all compatible,
\* the missing trailing elements yield a DEFAULTED-class result and the
\* array's outcome is never INCOMPATIBLE.
C15_ShortArrayNeverIncompatible ==
    ShortInputCompared =>
        /\ \A j \in (Len(given.a) + 1)..Len(matcher.values) :
              CompareOnly(ChildAt(j), msuite, VUndef).r \in {DEFAULTED, MIXED}
        /\ ret.kind = "ok"
        /\ ret.r # INCOMPATIBLE

\* C15, amended: for an input shorter than the declared children whose
\* present elements are compatible, a missing position that is compared
\* yields DEFAULTED when its child is a primitive type other than undef or
\* a selector of the default literal (false, 0); when all of them are
\* such and there is one, the array's outcome is DEFAULTED or MIXED.  A
\* missing compared position whose child is the true selector, an
\* integer selector N # 0 or a name selector yields INCOMPATIBLE, and so
\* does the array.  A repeating array given the empty sequence compares no
\* position and yields MATCHED.
C15_ShortArrayDefaultsUnlessSelector ==
    ShortInputCompared =>
        LET outs == PositionOutcomes(PositionsCompared)
        IN  /\ \A j \in MissingPositions :
                  /\ DefaultingChild(ChildAt(j)) => outs[j] = DEFAULTED
                  /\ NonDefaultSelector(ChildAt(j)) => outs[j] = INCOMPATIBLE
            /\ (/\ MissingPositions # {}
                /\ \A j \in MissingPositions : DefaultingChild(ChildAt(j)))
                   => ret.r \in {DEFAULTED, MIXED}
            /\ (\E j \in MissingPositions : NonDefaultSelector(ChildAt(j)))
                   => ret = Ok(INCOMPATIBLE)
            /\ (matcher.repeating /\ given.a = <<>>) => ret = Ok(MATCHED)

\* [ int, true ] given [ 1 ]: the element is accepted, the missing second
\* position is not
C15_Witness ==
    /\ ShortInputCompared
    /\ matcher = ArrayMatcher(<<Prim("int"), Prim("true")>>, FALSE)
    /\ given = VArray(<<VInt(1)>>)
    /\ ret = Ok(INCOMPATIBLE)

\* the values of a mapping, in iteration order
ValuesOf(pairs) == [i \in 1..Len(pairs) |-> pairs[i].v]

\* the outcome of the child type for each value of the mapping
ValueOutcomes ==
    [i \in 1..Len(GivenPairs) |->
        CompareOnly(matcher.value, msuite, GivenPairs[i].v).r]

\* C16: an open map matcher { $: T } treats undefined as the empty
\* mapping, rejects a non-mapping as INCOMPATIBLE (at every raise level,
\* by returning), and otherwise returns the AND-fold of T's outcome over
\* the values of the mapping: the keys play no part, the empty mapping
\* gives MATCHED, and the result has additional data only if a value has.
C16_DictIsAndFoldOfValues ==
    (call.fn = "_compare" /\ matcher.k = "dict") =>
        IF given.t \notin {"undef", "map"} THEN ret = Ok(INCOMPATIBLE)
        ELSE call.raise_level = NoLevel =>
             /\ ret = Ok(AndFold(MATCHED, ValueOutcomes))
             /\ GivenPairs = <<>> => ret = Ok(MATCHED)
             /\ \A w \in DictValues :
                    ValuesOf(w.m) = ValuesOf(GivenPairs)
                        => CompareOnly(matcher, msuite, w) = ret
             /\ ret.r \in {ADDITIONAL, MIXED} =>
                    \E i \in 1..Len(GivenPairs) :
                        ValueOutcomes[i] \in {ADDITIONAL, MIXED}
             /\ matcher.value.k \in PrimitiveKinds
                    => ret.r \notin {ADDITIONAL, MIXED}

\* two keys no schema names, one value T accepts and one it does not
C16_Witness ==
    /\ ComparedPlain
    /\ matcher = DictMatcher(Prim("int"))
    /\ given = VMap(<<[k |-> "y", v |-> VInt(1)], [k |-> "z", v |-> VStr("bee")]>>)
    /\ ret = Ok(INCOMPATIBLE)
    /\ CompareOnly(matcher, msuite, VMap(<<[k |-> "z", v |-> VInt(1)]>>))
          = Ok(MATCHED)

\* the integer a boolean, a real or a numeric string truncates to, as a
\* one-element set; empty for a value with no such integer
TruncatedValue(v) ==
    CASE v.t = "bool" -> {IF v.b THEN 1 ELSE 0}
      [] v.t = "real" -> IF IsNaN(v) THEN {} ELSE {Trunc(v.r)}
      [] v.t = "string" ->
            IF FloatOfString(v.s).ok /\ ~FloatOfString(v.s).nan
            THEN {Trunc(FloatOfString(v.s).r)} ELSE {}
      [] OTHER -> {}

\* C17: an integer selector N yields MATCHED for the integer N, CONVERTED
\* for a boolean, real or numeric string whose value truncated to an
\* integer equals N, and INCOMPATIBLE for every integer, real, boolean or
\* numeric string whose truncated value differs from N and for every
\* value of any other kind.
C17_NumberSelectorExact ==
    (ComparedPlain /\ matcher.k = "number") =>
        ret = Ok(IF given = VInt(matcher.number) THEN MATCHED
                 ELSE IF TruncatedValue(given) = {matcher.number} THEN CONVERTED
                 ELSE INCOMPATIBLE)

\* the kinds of the selectors
IsSelector(m) == m.k \in {"true", "false", "number", "name"}

\* C18: a selector accepts undefined only when its literal is the default
\* of its kind: on undefined the false selector and the integer selector 0
\* yield DEFAULTED, the true selector, every integer selector N # 0 and
\* every name selector yield INCOMPATIBLE.  So a map with an absent member,
\* or an array with a compared position beyond the input's end, whose
\* child is a selector is INCOMPATIBLE unless the literal is the default.
C18_SelectorDefaults ==
    /\ (ComparedPlain /\ IsSelector(matcher) /\ given = VUndef) =>
          /\ DefaultingChild(matcher) => ret = Ok(DEFAULTED)
          /\ NonDefaultSelector(matcher) => ret = Ok(INCOMPATIBLE)
          /\ DefaultingChild(matcher) \/ NonDefaultSelector(matcher)
    /\ (ComparedPlain /\ matcher.k = "map" /\ given.t \in {"undef", "map"}) =>
          \A i \in 1..Len(matcher.members) :
              (/\ IsSelector(matcher.members[i].value)
               /\ ~HasKey(GivenPairs, matcher.members[i].name)) =>
                  /\ NonDefaultSelector(matcher.members[i].value)
                        => ret = Ok(INCOMPATIBLE)
                  /\ DefaultingChild(matcher.members[i].value)
                        => MemberOutcomes[i] = DEFAULTED
    /\ (ComparedPlain /\ matcher.k = "array"
            /\ given.t \in {"undef", "array"}) =>
          \A j \in MissingPositions :
              IsSelector(ChildAt(j)) =>
                  /\ NonDefaultSelector(ChildAt(j)) => ret = Ok(INCOMPATIBLE)
                  /\ DefaultingChild(ChildAt(j))
                        => PositionOutcomes(PositionsCompared)[j] = DEFAULTED

\* { x: int, y: "red" } without the key y
C18_Witness ==
    /\ ComparedPlain
    /\ matcher = MapMatcher(<<[name |-> "x", value |-> Prim("int")],
                              [name |-> "y", value |-> NameMatcher("red")]>>)
    /\ given = VMap(<<[k |-> "x", v |-> VInt(1)]>>)
    /\ ret = Ok(INCOMPATIBLE)

-----------------------------------------------------------------------------
(* Properties of the resource definitions, checked under SpecSuite.        *)

\* the resource definitions parse_suite has read and registered
ResourcesRead == {i \in 1..pos : text[i].d = "resource"}

\* the (request, response) pair a resource shape stands for
ShapePair(def) ==
    CASE def.arrow = "->"  -> <<def.bodies[1], def.bodies[2]>>
      [] def.arrow = "<<"  -> <<Prim("undef"), def.bodies[1]>>
      [] def.arrow = ">>"  -> <<def.bodies[1], Prim("undef")>>
      [] def.arrow = "<>"  -> <<def.bodies[1], def.bodies[1]>>
      [] def.arrow = "<x>" -> <<def.bodies[1], def.bodies[1]>>

\* the definition a query's resource name was registered by
QueriedDefinition ==
    text[CHOOSE i \in ResourcesRead : text[i].name = query.name]

\* C19: the resource shapes register these (request, response) pairs:
\* 'name -> req <- res' gives (req, res), 'name << body' gives (Undef, body),
\* 'name >> body' gives (body, Undef), 'name <> body' and 'name <x> body'
\* give (body, body); after each successful definition the resource has both
\* a request and a response matcher.  Every request value matches a <<
\* resource and every response value a >> resource.
C19_ResourceShapes ==
    /\ DOMAIN suite.requests = DOMAIN suite.responses
    /\ DOMAIN suite.requests = {text[i].name : i \in ResourcesRead}
    /\ \A i \in ResourcesRead :
          /\ text[i].arrow \in {"->", "<<", ">>", "<>", "<x>"}
          /\ <<suite.requests[text[i].name], suite.responses[text[i].name]>>
                = ShapePair(text[i])
    /\ (query.fn # "none" /\ query.name \in DOMAIN suite.requests) =>
          /\ (/\ QueriedDefinition.arrow = "<<"
              /\ query.fn \in {"match_request", "valid_request"})
                 => qret = Return(TRUE)
          /\ (/\ QueriedDefinition.arrow = ">>"
              /\ query.fn \in {"match_response", "valid_response"})
                 => qret = Return(TRUE)

\* a << resource accepts a request that its body would refuse
C19_Witness ==
    /\ presult.kind = "suite"
    /\ query.fn = "match_request" /\ query.name = "r1"
    /\ query.value = VStr("bee") /\ query.raises = RaisesTrue
    /\ "r1" \in DOMAIN suite.requests
    /\ suite.requests["r1"] = Prim("undef")
    /\ suite.responses["r1"] = ArrayMatcher(<<VariantMatcher("a")>>, TRUE)
    /\ qret = Return(TRUE)

\* the positions in the text of the resource definitions of a name
DefinitionsOf(name) ==
    {i \in 1..Len(text) : text[i].d = "resource" /\ text[i].name = name}

\* the position of the first definition that repeats a resource name of an
\* earlier one; 0 when the text repeats none
FirstRepeat ==
    LET repeats == {j \in 1..Len(text) :
                       /\ text[j].d = "resource"
                       /\ \E i \in DefinitionsOf(text[j].name) : i < j}
    IN  IF repeats = {} THEN 0
        ELSE CHOOSE j \in repeats : \A k \in repeats : j <= k

\* C20: parse_suite on a text that defines the same resource name twice
\* raises a ParseError and returns no Suite; when the parse gets as far as
\* the second definition the error is raised there, as a duplicate
\* resource name; and whatever a resource name is registered with comes
\* from its first definition, never from a later one.
C20_DuplicateResourceIsParseError ==
    /\ (presult.kind # "running" /\ FirstRepeat # 0) =>
          /\ presult.kind = "ParseError"
          /\ pos + 1 = FirstRepeat =>
                presult = ParseError("duplicate resource name", <<>>,
                                     FirstRepeat)
    /\ presult.kind = "suite" => FirstRepeat = 0
    /\ \A name \in DOMAIN suite.requests :
          LET first == CHOOSE i \in DefinitionsOf(name) :
                          \A k \in DefinitionsOf(name) : i <= k
          IN  /\ first <= pos
              /\ <<suite.requests[name], suite.responses[name]>>
                    = ShapePair(text[first])

\* r1 is defined first and third; the first definition stays registered
C20_Witness ==
    /\ presult = ParseError("duplicate resource name", <<>>, 3)
    /\ pos = 2
    /\ text[1] = ResourceDef("r1", "<<",
                     <<ArrayMatcher(<<VariantMatcher("a")>>, TRUE)>>)
    /\ text[3].d = "resource" /\ text[3].name = "r1" /\ text[3].arrow = "<x>"
    /\ suite.requests = ("r1" :> Prim("undef"))

-----------------------------------------------------------------------------
(* Further properties of the lattice, checked under SpecLattice.           *)

\* the orders in which three outcomes can be folded
FoldOrders ==
    {<<opA, opB, opC>>, <<opA, opC, opB>>, <<opB, opA, opC>>,
     <<opB, opC, opA>>, <<opC, opA, opB>>, <<opC, opB, opA>>}

\* C29: AND is associative over the six outcomes, so the fold a composite
\* matcher runs over its members or elements gives the same outcome in
\* whatever order they are folded.
C29_AndAssociative ==
    /\ ResultAnd(ResultAnd(opA, opB), opC) = ResultAnd(opA, ResultAnd(opB, opC))
    /\ lop = "fold" =>
          /\ lres = ResultAnd(opA, ResultAnd(opB, opC))
          /\ \A xs \in FoldOrders : AndFold(MATCHED, xs) = lres

\* the two partial outcomes met in a fold, in either position
C29_Witness ==
    /\ lop = "fold"
    /\ opA = ADDITIONAL /\ opB = DEFAULTED /\ opC = ADDITIONAL
    /\ lres = MIXED

-----------------------------------------------------------------------------
(* Primitive types against composite values, checked under SpecMatch.      *)

\* the kinds of value the string type is said to convert
StringifiableKinds == {"bool", "int", "real", "date", "uuid", "uri"}

\* C30: every primitive type other than undef yields INCOMPATIBLE for an
\* array or a map, and the string type yields CONVERTED only for a
\* boolean, integer, real, date, uuid or uri, never for an array, a map or
\* a binary value.
C30_PrimitivesRejectComposites ==
    /\ (/\ ComparedPlain
         /\ matcher.k \in PrimitiveKinds
         /\ given.t \in {"array", "map"}) => ret = Ok(INCOMPATIBLE)
    /\ (ComparedPlain /\ matcher.k = "string" /\ ret = Ok(CONVERTED)) =>
            given.t \in StringifiableKinds

-----------------------------------------------------------------------------
(* The error a variant raises, checked under SpecMatch.                    *)

\* the alternatives the compared variant matcher goes through
ComparedOptions ==
    IF matcher.k = "variant" /\ msuite.attached
    THEN GetVariantOptions(msuite, matcher.name) ELSE <<>>

\* _compare of the i-th alternative as the variant's loop calls it
OptionCompare(i) ==
    Compare(ComparedOptions[i], given, call.raise_level, msuite,
            RecursionLimit - 1)

\* no alternative of the compared variant reaches the supplied threshold
NoOptionReaches ==
    /\ call.fn = "_compare" /\ call.raise_level # NoLevel
    /\ ComparedOptions # <<>>
    /\ \A i \in 1..Len(ComparedOptions) :
          LET c == CompareOnly(ComparedOptions[i], msuite, given)
          IN  c.kind = "ok" /\ ResultLt(c.r, call.raise_level)

\* C24: when a raise threshold is supplied and no alternative of a variant
\* reaches it, the variant raises an error holding one sub-failure for
\* each of its alternatives, in declaration order.
C24_VariantReportsEveryAlternative ==
    NoOptionReaches =>
        /\ ret.kind = "stack"
        /\ Len(ret.stack[1].val.errors) = Len(ComparedOptions)
        /\ \A i \in 1..Len(ComparedOptions) :
              /\ OptionCompare(i).kind = "stack"
              /\ ret.stack[1].val.errors[i] = OptionCompare(i).stack

-----------------------------------------------------------------------------
(* The diagnostic of a nested failure, checked under SpecMatch.            *)

\* match or valid called with raises=True
RaisingCall == IsMatchCall /\ call.raises = RaisesTrue

Least(S) == CHOOSE j \in S : \A k \in S : j <= k

\* the compared positions of an array whose outcome is below the threshold
FailingPositions ==
    {j \in 1..PositionsCompared :
        ResultLt(PositionOutcomes(PositionsCompared)[j], call.match_level)}

\* the declared members of a map whose outcome is below the threshold
FailingMembers ==
    {i \in 1..Len(matcher.members) :
        ResultLt(MemberOutcomes[i], call.match_level)}

\* the value a declared member is compared with
MemberValue(i) ==
    IF HasKey(GivenPairs, matcher.members[i].name)
    THEN GetKey(GivenPairs, matcher.members[i].name) ELSE VUndef

\* the value a position is compared with
PositionValue(j) == IF j <= Len(GivenList) THEN GivenList[j] ELSE VUndef

IsLeaf(m) == m.k \notin {"array", "map", "dict", "variant"}

\* the diagnostic of a failure of child m on value v reached through the
\* entry (step) of the enclosing matcher: the enclosing matcher first, then
\* the child's own path, a leaf child ending it with the value and outcome
NestedDiagnostic(step, m, v) ==
    LET c == Compare(m, v, call.match_level, msuite, RecursionLimit - 1)
    IN  /\ c.kind = "stack"
        /\ IsLeaf(m) =>
              c.stack = <<StackEntry3(VType(m), [value |-> v],
                                      CompareOnly(m, msuite, v).r)>>
        /\ ret = Raise(Exception("MatchError",
                    StrOfStack(<<StackEntry2(PlainType(matcher), step)>>
                                   \o c.stack)))

\* C25: when raises is supplied and a nested comparison falls below the
\* threshold, the diagnostic describes the first failing position in
\* evaluation order (declared order for a map's members, ascending index
\* for an array's elements): the enclosing matcher with the member key or
\* element index first, then the path below it, ending with the failing
\* leaf matcher, the offending value and its outcome.
C25_DiagnosticNamesFirstFailure ==
    /\ (/\ RaisingCall /\ matcher.k = "array"
         /\ given.t \in {"undef", "array"}
         /\ (matcher.repeating \/ Len(GivenList) <= Len(matcher.values))
         /\ FailingPositions # {}) =>
            LET j == Least(FailingPositions)
            IN  NestedDiagnostic([index |-> j - 1], ChildAt(j), PositionValue(j))
    /\ (/\ RaisingCall /\ matcher.k = "map"
         /\ given.t \in {"undef", "map"}
         /\ FailingMembers # {}) =>
            LET i == Least(FailingMembers)
            IN  NestedDiagnostic([key |-> matcher.members[i].name],
                                 matcher.members[i].value, MemberValue(i))

-----------------------------------------------------------------------------
(* The message of the completeness check, checked under SpecSuite.         *)

\* the variant names of the texts, in ascending order
SortedNames == <<"a", "b", "c">>

NameRank(n) == CHOOSE i \in 1..Len(SortedNames) : SortedNames[i] = n

\* C26: when parse_suite fails because several referenced variant names
\* are undefined, the message lists all the missing names, comma-joined, in
\* sorted order, whatever the order in which the text references them.
C26_MissingNamesSorted ==
    (/\ presult.kind = "ParseError"
     /\ presult.msg = "missing definitions of variants") =>
        /\ {presult.names[i] : i \in 1..Len(presult.names)}
              = MissingVariants(suite)
        /\ Len(presult.names) = Cardinality(MissingVariants(suite))
        /\ \A i, j \in 1..Len(presult.names) :
              i < j => NameRank(presult.names[i]) < NameRank(presult.names[j])

-----------------------------------------------------------------------------
(* Termination of match and valid, checked under SpecMatch.                *)

\* the exception classes a caller of match or valid asks for or expects
MatchErrorClasses == {"MatchError", "UserWarning"}

\* C28: for a matcher of a suite parse_suite accepts and a finite value,
\* match and valid terminate by returning a boolean or raising a match
\* error, also when an alternative of a variant refers back to the variant.
C28_MatchTerminates ==
    (IsMatchCall /\ ~IsNaN(given)) =>
        \/ ret.kind = "return" /\ ret.val \in BOOLEAN
        \/ /\ ret.kind = "raise" /\ ret.exc.cls \in MatchErrorClasses
            /\ call.raises # RaisesNone

-----------------------------------------------------------------------------
(* Repeated queries.  A parsed Suite is asked up to MaxQueries questions,  *)
(* in any order; each action is one call, with what the call leaves behind *)
(* in the Suite's tables and in the caller's value.                        *)

\* most queries made on one Suite
MaxQueries == 3

\* a slip that registers the name it looked up (setdefault for get)
AfterGetVariantOptionsInserts(su, name) ==
    IF name \in DOMAIN su.variants THEN su
    ELSE [su EXCEPT !.variants = (name :> <<>>) @@ su.variants]

\* Suite._get_variant_options: the Suite after self._variants.get(name, [])
AfterGetVariantOptions(su, name) == su

\* Suite._get_request / _get_response: the Suite after self._requests[name],
\* found or not
AfterGetResource(su, name) == su

\* the caller's value after _compare: 'actual = []' and 'actual = {}' rebind
\* the local name only
ActualAfterCompare(actual) == actual

\* the names _compare(actual, raise_level) of matcher m passes to
\* _get_variant_options, following the loops up to the first exception
RECURSIVE Fetched(_, _, _, _, _)
Fetched(m, actual, raise_level, s, d) ==
    IF d = 0 THEN {}
    ELSE CASE m.k = "array" ->
            LET act == IF actual = VUndef THEN VArray(<<>>) ELSE actual
                vlen == Len(m.values)
                alen == Len(act.a)
                tlen == TotalLength(m.repeating, alen, vlen)
                Elem(i) == IF i < alen THEN act.a[i + 1] ELSE VUndef
                Child(i) == m.values[(i % vlen) + 1]
                reached == {i \in 0..(tlen - 1) :
                              \A j \in 0..(i - 1) :
                                  Compare(Child(j), Elem(j), raise_level, s,
                                          d - 1).kind = "ok"}
            IN  IF act.t # "array" THEN {}
                ELSE IF ~m.repeating /\ alen > vlen
                        /\ BelowLevel(ADDITIONAL, raise_level) THEN {}
                ELSE UNION {Fetched(Child(i), Elem(i), raise_level, s, d - 1) :
                               i \in reached}
      [] m.k = "map" ->
            LET act == IF actual = VUndef THEN VMap(<<>>) ELSE actual
                Val(i) == IF HasKey(act.m, m.members[i].name)
                          THEN GetKey(act.m, m.members[i].name) ELSE VUndef
                reached == {i \in 1..Len(m.members) :
                              \A j \in 1..(i - 1) :
                                  Compare(m.members[j].value, Val(j),
                                          raise_level, s, d - 1).kind = "ok"}
            IN  IF act.t # "map" THEN {}
                ELSE UNION {Fetched(m.members[i].value, Val(i), raise_level,
                                    s, d - 1) : i \in reached}
      [] m.k = "dict" ->
            LET act == IF actual = VUndef THEN VMap(<<>>) ELSE actual
                reached == {i \in 1..Len(act.m) :
                              \A j \in 1..(i - 1) :
                                  Compare(m.value, act.m[j].v, raise_level, s,
                                          d - 1).kind = "ok"}
            IN  IF act.t # "map" THEN {}
                ELSE UNION {Fetched(m.value, act.m[i].v, raise_level, s, d - 1) :
                               i \in reached}
      [] m.k = "variant" ->
            IF ~s.attached THEN {}
            ELSE LET options == GetVariantOptions(s, m.name)
                     reached == {i \in 1..Len(options) :
                                   \A j \in 1..(i - 1) :
                                       ~Escapes(Compare(options[j], actual,
                                                   raise_level, s, d - 1))}
                 IN  {m.name} \cup
                     UNION {Fetched(options[i], actual, raise_level, s, d - 1) :
                               i \in reached}
      [] OTHER -> {}

\* the Suite after the lookups of a set of names
RECURSIVE AfterLookups(_, _)
AfterLookups(su, names) ==
    IF names = {} THEN su
    ELSE LET n == CHOOSE x \in names : TRUE
         IN  AfterLookups(AfterGetVariantOptions(su, n), names \ {n})

\* the Suite after looking a resource up and comparing a value with what
\* was found
AfterQuery(su, name, got, actual, raise_level) ==
    LET s1 == AfterGetResource(su, name)
    IN  IF ~got.found THEN s1
        ELSE AfterLookups(s1, Fetched(got.value, actual, raise_level,
                                      SuiteRef(su), RecursionLimit))

\* the three tests that take no raises, on the matcher a lookup found
SuiteTest(fn, got, su, actual) ==
    IF ~got.found THEN Raise(got.exc)
    ELSE CASE fn = "has_additional" ->
                  HasAdditional(got.value, SuiteRef(su), actual)
           [] fn = "has_defaulted" ->
                  HasDefaulted(got.value, SuiteRef(su), actual)
           [] OTHER -> Incompatible(got.value, SuiteRef(su), actual)

\* the Suites parse_suite returns for
\*   &a = int   &a = { x: "red" }   &b = [ &c ]   %% r1 -> &a <- &b
\* and
\*   %% r1 -> { x: int } <- [ int, ... ]
QueriedSuites ==
    {AddResource(
        AddVariant(
            AddVariant(AddVariant(EmptySuite, "a", Prim("int")), "a",
                MapMatcher(<<[name |-> "x", value |-> NameMatcher("red")]>>)),
            "b", ArrayMatcher(<<VariantMatcher("c")>>, FALSE)),
        "r1", VariantMatcher("a"), VariantMatcher("b")),
     AddResource(EmptySuite, "r1",
        MapMatcher(<<[name |-> "x", value |-> Prim("int")]>>),
        ArrayMatcher(<<Prim("int")>>, TRUE))}

AskedNames  == {"r1", "nonexistent"}
AskedValues == {VUndef, VMap(<<[k |-> "x", v |-> VStr("red")]>>)}

QueriesInit ==
    /\ suite \in QueriedSuites
    /\ text = <<>> /\ pos = 0 /\ presult = [kind |-> "suite"]
    /\ query = [fn |-> "none"] /\ qret = [kind |-> "none"]
    /\ history = <<>>
    /\ LatticeIdle /\ MatchIdle /\ ParseIdle /\ ConfigIdle

\* one query: the call, its result, and the Suite and the value after it
Ask(fn, name, value, raises, got, raise_level, result) ==
    /\ Len(history) < MaxQueries
    /\ query' = [fn |-> fn, name |-> name, value |-> value, raises |-> raises]
    /\ qret' = result
    /\ suite' = AfterQuery(suite, name, got, value, raise_level)
    /\ given' = ActualAfterCompare(value)
    /\ history' = Append(history, [query |-> query', ret |-> result])
    /\ UNCHANGED <<text, pos, presult, matcher, msuite, call, ret, latticeVars,
                   parseVars, configVars>>

AskMatchRequest ==
    \E name \in AskedNames, value \in AskedValues :
        Ask("match_request", name, value, RaisesTrue, GetRequest(suite, name),
            MatchDefaultLevel,
            SuiteCall(GetRequest(suite, name), suite, value, RaisesTrue,
                      MatchDefaultLevel))

AskMatchResponse ==
    \E name \in AskedNames, value \in AskedValues :
        Ask("match_response", name, value, RaisesNone,
            GetResponse(suite, name), NoLevel,
            SuiteCall(GetResponse(suite, name), suite, value, RaisesNone,
                      MatchDefaultLevel))

AskValidRequest ==
    \E name \in AskedNames, value \in AskedValues :
        Ask("valid_request", name, value, RaisesTrue, GetRequest(suite, name),
            ValidDefaultLevel,
            SuiteCall(GetRequest(suite, name), suite, value, RaisesTrue,
                      ValidDefaultLevel))

AskValidResponse ==
    \E name \in AskedNames, value \in AskedValues :
        Ask("valid_response", name, value, RaisesNone,
            GetResponse(suite, name), NoLevel,
            SuiteCall(GetResponse(suite, name), suite, value, RaisesNone,
                      ValidDefaultLevel))

\* suite._get_request(name).has_additional(value), and the like
AskHasAdditional ==
    \E name \in AskedNames, value \in AskedValues :
        Ask("has_additional", name, value, RaisesNone, GetRequest(suite, name),
            NoLevel,
            SuiteTest("has_additional", GetRequest(suite, name), suite, value))

AskHasDefaulted ==
    \E name \in AskedNames, value \in AskedValues :
        Ask("has_defaulted", name, value, RaisesNone, GetResponse(suite, name),
            NoLevel,
            SuiteTest("has_defaulted", GetResponse(suite, name), suite, value))

AskIncompatible ==
    \E name \in AskedNames, value \in AskedValues :
        Ask("incompatible", name, value, RaisesNone, GetRequest(suite, name),
            NoLevel,
            SuiteTest("incompatible", GetRequest(suite, name), suite, value))

QueriesNext ==
    \/ AskMatchRequest \/ AskMatchResponse \/ AskValidRequest
    \/ AskValidResponse \/ AskHasAdditional \/ AskHasDefaulted
    \/ AskIncompatible

SpecQueries == QueriesInit /\ [][QueriesNext]_vars

-----------------------------------------------------------------------------
(* _Parser.parse_value, character by character.  A text is the sequence of *)
(* its characters; the parser object is the record of _offset, _line and   *)
(* _lineoffset, and every parse_* operator returns the record after it.     *)

Letters ==
    {"a", "b", "c", "d", "e", "f", "g", "h", "i", "j", "k", "l", "m", "n", "o", "p", "q", "r", "s", "t", "u", "v", "w", "x", "y", "z",
     "A", "B", "C", "D", "E", "F", "G", "H", "I", "J", "K", "L", "M", "N", "O", "P", "Q", "R", "S", "T", "U", "V", "W", "X", "Y", "Z"}
Digits == {"0", "1", "2", "3", "4", "5", "6", "7", "8", "9"}

\* what a parse_* method returns: a value, None, or the ParseError raised
ParsedValue(v, p) == [kind |-> "value", value |-> v, p |-> p]
ParsedNone(p)     == [kind |-> "None", p |-> p]

\* _Parser.error: ParseError(msg, line, char)
ParserError(p, msg) ==
    [kind |-> "ParseError", msg |-> msg, line |-> p.line + 1,
     char |-> p.offset - p.lineoffset + 1, p |-> p]

\* _Parser.parse_eof
ParseEof(str, p) == p.offset = Len(str)

\* _Parser.parse_literal
ParseLiteral(str, p, lit) ==
    LET n == Len(lit)
        o == p.offset
    IN  IF o + n <= Len(str) /\ SubSeq(str, o + 1, o + n) = lit
        THEN [ok |-> TRUE, p |-> [p EXCEPT !.offset = o + n]]
        ELSE [ok |-> FALSE, p |-> p]

\* the end of the match of [^\n\r]* at offset o
RECURSIVE CommentEnd(_, _)
CommentEnd(str, o) ==
    IF o < Len(str) /\ str[o + 1] \notin {"\n", "\r"}
    THEN CommentEnd(str, o + 1) ELSE o

\* _ws_re: the end of the match of (\t| |;[^\n\r]*)* at offset o
RECURSIVE WsEnd(_, _)
WsEnd(str, o) ==
    IF o >= Len(str) THEN o
    ELSE CASE str[o + 1] \in {"\t", " "} -> WsEnd(str, o + 1)
           [] str[o + 1] = ";" -> WsEnd(str, CommentEnd(str, o + 1))
           [] OTHER -> o

\* a slip that takes \r and \n for a newline each: \n|\r
NlEndSingle(str, o) ==
    IF o < Len(str) /\ str[o + 1] \in {"\n", "\r"} THEN o + 1 ELSE o

\* _nl_re: the end of the match of \n|\r\n? at offset o (o itself: no match)
NlEnd(str, o) ==
    IF o >= Len(str) THEN o
    ELSE IF str[o + 1] = "\n" THEN o + 1
    ELSE IF str[o + 1] = "\r"
         THEN IF o + 1 < Len(str) /\ str[o + 2] = "\n" THEN o + 2 ELSE o + 1
    ELSE o

\* _Parser.parse_s
RECURSIVE ParseS(_, _)
ParseS(str, p) ==
    LET o1 == WsEnd(str, p.offset)
        o2 == NlEnd(str, o1)
    IN  IF o2 > o1
        THEN ParseS(str, [offset |-> o2, line |-> p.line + 1,
                          lineoffset |-> o2])
        ELSE [p EXCEPT !.offset = o1]

\* _number_re: the end of the match of \d+ at offset o (o itself: no match)
RECURSIVE NumberEnd(_, _)
NumberEnd(str, o) ==
    IF o < Len(str) /\ str[o + 1] \in Digits THEN NumberEnd(str, o + 1) ELSE o

\* int(number) of a string of digits
RECURSIVE IntOfDigits(_)
IntOfDigits(ds) ==
    IF ds = <<>> THEN 0
    ELSE 10 * IntOfDigits(SubSeq(ds, 1, Len(ds) - 1))
            + (CHOOSE d \in 0..9 : ToString(d) = ds[Len(ds)])

\* _Parser.parseNumber
ParseNumber(str, p) ==
    LET e == NumberEnd(str, p.offset)
    IN  IF e > p.offset
        THEN [ok |-> TRUE, text |-> SubSeq(str, p.offset + 1, e),
              p |-> [p EXCEPT !.offset = e]]
        ELSE [ok |-> FALSE, p |-> p]

\* _name_re: the end of the match of (?:[a-zA-Z0-9_/]|-(?!>))* at offset o
RECURSIVE NameTailEnd(_, _)
NameTailEnd(str, o) ==
    IF o >= Len(str) THEN o
    ELSE IF str[o + 1] \in Letters \cup Digits \cup {"_", "/"}
         THEN NameTailEnd(str, o + 1)
    ELSE IF str[o + 1] = "-" /\ ~(o + 1 < Len(str) /\ str[o + 2] = ">")
         THEN NameTailEnd(str, o + 1)
    ELSE o

\* _Parser.parseName: a name, None, or the error for a hyphen in the name
ParseName(str, p) ==
    IF p.offset < Len(str) /\ str[p.offset + 1] \in Letters \cup {"_"}
    THEN LET e == NameTailEnd(str, p.offset + 1)
             n == SubSeq(str, p.offset + 1, e)
             q == [p EXCEPT !.offset = e]
         IN  IF \E i \in 1..Len(n) : n[i] = "-"
             THEN ParserError(q, "malformed name: hyphen (-) not allowed")
             ELSE [kind |-> "name", name |-> n, p |-> q]
    ELSE ParsedNone(p)

\* _Parser._typemap: the kind a type name stands for, "" for any other name
TypeOfName(name) ==
      CASE name = <<"u", "n", "d", "e", "f">> -> "undef"
        [] name = <<"b", "o", "o", "l">> -> "bool"
        [] name = <<"i", "n", "t">> -> "int"
        [] name = <<"r", "e", "a", "l">> -> "real"
        [] name = <<"s", "t", "r", "i", "n", "g">> -> "string"
        [] name = <<"d", "a", "t", "e">> -> "date"
        [] name = <<"u", "u", "i", "d">> -> "uuid"
        [] name = <<"u", "r", "i">> -> "uri"
        [] name = <<"b", "i", "n", "a", "r", "y">> -> "binary"
        [] name = <<"t", "r", "u", "e">> -> "true"
        [] name = <<"f", "a", "l", "s", "e">> -> "false"
        [] OTHER -> ""

\* a slip that lets the empty array through
ArrayResultAllowsEmpty(values, repeating, p) ==
    ParsedValue(ArrayMatcher(values, repeating), p)

\* the end of _parse_rest_of_array, the close bracket read:
\*   if not values: self.error('empty array')
\*   return _ArrayMatcher(values, repeating)
ArrayResult(values, repeating, p) ==
    IF values = <<>> THEN ParserError(p, "empty array")
    ELSE ParsedValue(ArrayMatcher(values, repeating), p)

\* the end of _parse_rest_of_map, the close bracket read
MapResult(members, p) ==
    IF members = <<>> THEN ParserError(p, "empty map")
    ELSE ParsedValue(MapMatcher(members), p)

\* the one element of a set of one element; { e : x \in {v} } is e with x
\* standing for the value of v, worked out once
Only(S) == CHOOSE x \in S : TRUE

RECURSIVE ParseValueAt(_, _)
RECURSIVE ArrayItems(_, _, _)
RECURSIVE MapItems(_, _, _)

\* _parse_rest_of_array: the 'while True' loop, values read so far
ArrayItems(str, p, values) ==
    Only({ CASE v.kind = "ParseError" -> v
             [] v.kind = "None" ->
                   [kind |-> "items", items |-> values, p |-> v.p]
             [] OTHER ->
                   Only({ IF c.ok
                          THEN ArrayItems(str, ParseS(str, c.p),
                                          Append(values, v.value))
                          ELSE [kind |-> "items",
                                items |-> Append(values, v.value),
                                p |-> c.p]
                          : c \in {ParseLiteral(str, ParseS(str, v.p),
                                                <<",">>)} })
           : v \in {ParseValueAt(str, p)} })

\* _parse_rest_of_array after the loop: the optional '...', the close bracket
ArrayClose(str, its, dots) ==
    Only({ IF ~close.ok THEN ParserError(close.p, "expected close bracket")
           ELSE ArrayResult(its.items, dots.ok, close.p)
           : close \in {ParseLiteral(str,
                                     IF dots.ok THEN ParseS(str, dots.p)
                                     ELSE its.p,
                                     <<"]">>)} })

\* _Parser._parse_rest_of_array
ParseRestOfArray(str, p) ==
    Only({ IF its.kind = "ParseError" THEN its
           ELSE Only({ ArrayClose(str, its, dots)
                       : dots \in {ParseLiteral(str, its.p,
                                                <<".", ".", ".">>)} })
           : its \in {ArrayItems(str, ParseS(str, p), <<>>)} })

\* _parse_rest_of_map: one member read, the comma that may follow it
MapItemsNext(str, ms, c) ==
    IF c.ok THEN MapItems(str, ParseS(str, c.p), ms)
    ELSE [kind |-> "items", items |-> ms, p |-> c.p]

\* _parse_rest_of_map: the member's value, after its name k and the colon
MapItemValue(str, members, k, colon) ==
    IF ~colon.ok THEN ParserError(colon.p, "expected colon")
    ELSE Only({ CASE v.kind = "ParseError" -> v
                  [] v.kind = "None" -> ParserError(v.p, "expected value")
                  [] OTHER ->
                        Only({ MapItemsNext(str,
                                            Append(members,
                                                   [name |-> k.name,
                                                    value |-> v.value]),
                                            c)
                               : c \in {ParseLiteral(str, ParseS(str, v.p),
                                                     <<",">>)} })
                : v \in {ParseValueAt(str, ParseS(str, colon.p))} })

\* _parse_rest_of_map: the 'while True' loop over the members
MapItems(str, p, members) ==
    Only({ CASE k.kind = "ParseError" -> k
             [] k.kind = "None" ->
                   [kind |-> "items", items |-> members, p |-> k.p]
             [] \E i \in 1..Len(members) : members[i].name = k.name ->
                   ParserError(k.p, "duplicate key in map")
             [] OTHER ->
                   Only({ MapItemValue(str, members, k, colon)
                          : colon \in {ParseLiteral(str, ParseS(str, k.p),
                                                    <<":">>)} })
           : k \in {ParseName(str, p)} })

\* _parse_rest_of_map: the branch of { $: value }
ParseRestOfDict(str, p) ==
    Only({ IF ~colon.ok THEN ParserError(colon.p, "expected colon")
           ELSE Only({ CASE v.kind = "ParseError" -> v
                         [] v.kind = "None" ->
                               ParserError(v.p, "expected value")
                         [] OTHER ->
                               Only({ IF ~close.ok
                                      THEN ParserError(close.p,
                                               "expected close bracket")
                                      ELSE ParsedValue(DictMatcher(v.value),
                                                       close.p)
                                      : close \in
                                          {ParseLiteral(str, ParseS(str, v.p),
                                                        <<"}">>)} })
                       : v \in {ParseValueAt(str, ParseS(str, colon.p))} })
           : colon \in {ParseLiteral(str, ParseS(str, p), <<":">>)} })

\* _parse_rest_of_map: the members and the close bracket
ParseRestOfMembers(str, p0) ==
    Only({ IF its.kind = "ParseError" THEN its
           ELSE Only({ IF ~close.ok
                       THEN ParserError(its.p, "expected close bracket")
                       ELSE MapResult(its.items, close.p)
                       : close \in {ParseLiteral(str, its.p, <<"}">>)} })
           : its \in {MapItems(str, p0, <<>>)} })

\* _Parser._parse_rest_of_map
ParseRestOfMap(str, p) ==
    Only({ IF dollar.ok THEN ParseRestOfDict(str, dollar.p)
           ELSE ParseRestOfMembers(str, dollar.p)
           : dollar \in {ParseLiteral(str, ParseS(str, p), <<"$">>)} })

\* _Parser.parse_value
ParseValueAt(str, p) ==
    LET quote   == ParseLiteral(str, p, <<"\"">>)
        bracket == ParseLiteral(str, p, <<"[">>)
        brace   == ParseLiteral(str, p, <<"{">>)
        amp     == ParseLiteral(str, p, <<"&">>)
        number  == ParseNumber(str, p)
    IN  CASE quote.ok ->
                LET n == ParseName(str, quote.p)
                IN  CASE n.kind = "ParseError" -> n
                      [] n.kind = "None" ->
                            ParserError(n.p, "expected name in quotes")
                      [] OTHER ->
                            LET c == ParseLiteral(str, n.p, <<"\"">>)
                            IN  IF c.ok
                                THEN ParsedValue(NameMatcher(n.name), c.p)
                                ELSE ParserError(n.p, "expected close quote")
          [] bracket.ok -> ParseRestOfArray(str, bracket.p)
          [] brace.ok -> ParseRestOfMap(str, brace.p)
          [] amp.ok ->
                LET n == ParseName(str, amp.p)
                IN  CASE n.kind = "ParseError" -> n
                      [] n.kind = "None" ->
                            ParserError(n.p, "expected variant name")
                      [] OTHER -> ParsedValue(VariantMatcher(n.name), n.p)
          [] number.ok ->
                ParsedValue(NumberMatcher(IntOfDigits(number.text)), number.p)
          [] OTHER ->
                LET n == ParseName(str, p)
                IN  CASE n.kind = "ParseError" -> n
                      [] n.kind = "None" -> ParsedNone(p)
                      [] TypeOfName(n.name) # "" ->
                            ParsedValue(Prim(TypeOfName(n.name)), n.p)
                      [] OTHER -> ParserError(n.p, "unknown type")

\* the module's parse_value(spec)
ParseValueText(str) ==
    Only({ CASE r.kind = "ParseError" -> r
             [] r.kind = "None" -> ParserError(r.p, "expected value")
             [] ~ParseEof(str, r.p) ->
                   ParserError(r.p, "expected end of input")
             [] OTHER -> r
           : r \in {ParseValueAt(str, NewParser)} })

\* most pieces in a text, and most blank characters between two of its tokens
MaxPieces == 3
MaxBlank  == 2

\* the concatenation of a sequence of texts
RECURSIVE Concat(_)
Concat(ts) == IF ts = <<>> THEN <<>> ELSE Head(ts) \o Concat(Tail(ts))

\* the pieces texts are put together from:
\*   [  ]  {  }  int  int,  x:int  x:int,  {y:  $:int  ...  [int]  {x:int}
\* and a space
Pieces ==
    {<<"[">>, <<"]">>, <<"{">>, <<"}">>,
     <<"i", "n", "t">>, <<"i", "n", "t", ",">>,
     <<"x", ":", "i", "n", "t">>, <<"x", ":", "i", "n", "t", ",">>,
     <<"{", "y", ":">>, <<"$", ":", "i", "n", "t">>,
     <<".", ".", ".">>, <<" ">>,
     <<"[", "i", "n", "t", "]">>, <<"{", "x", ":", "i", "n", "t", "}">>}

StructureTexts == {Concat(ts) : ts \in SeqsOf(Pieces, 0, MaxPieces)}

\* blank, comment and newline characters
BlankChars == {" ", ";", "\n", "\r"}
Blanks == SeqsOf(BlankChars, 0, MaxBlank)

\* the ends of the texts laid out over several lines:  y::3}   y:int}   q}
Endings ==
    {<<"y", ":", ":", "3", "}">>, <<"y", ":", "i", "n", "t", "}">>,
     <<"q", "}">>}

\*   { <blanks> x:int, <blanks> <ending>
LayoutTexts ==
    {<<"{">> \o w1 \o <<"x", ":", "i", "n", "t", ",">> \o w2 \o e :
        w1 \in Blanks, w2 \in Blanks, e \in Endings}

ParseInit ==
    /\ source \in StructureTexts \cup LayoutTexts
    /\ scanner = NewParser
    /\ parsed = [kind |-> "none"]
    /\ LatticeIdle /\ MatchIdle /\ SuiteIdle /\ QueriesIdle /\ ConfigIdle

\* parse_value(source): the value returned or the ParseError raised, and the
\* parser's position when it ended
DoParseValue ==
    /\ parsed.kind = "none"
    /\ LET r == ParseValueText(source)
       IN  /\ scanner' = r.p
           /\ parsed' = IF r.kind = "ParseError"
                        THEN [kind |-> "ParseError", msg |-> r.msg,
                              line |-> r.line, char |-> r.char]
                        ELSE [kind |-> "value", value |-> r.value]
    /\ UNCHANGED <<source, latticeVars, matchVars, suiteVars, queryVars,
                   configVars>>

ParseNext == DoParseValue

SpecParse == ParseInit /\ [][ParseNext]_vars

-----------------------------------------------------------------------------
(* Properties of the parser, checked under SpecParse.                      *)

\* the part of the text the parser has consumed
Consumed == SubSeq(source, 1, scanner.offset)

\* the offsets of cs at which a newline sequence ends: a "\n", or a "\r" that
\* no "\n" follows ("\r\n" ends at its "\n" and counts once)
NewlineEnds(cs) ==
    {i \in 1..Len(cs) :
        \/ cs[i] = "\n"
        \/ cs[i] = "\r" /\ ~(i < Len(source) /\ source[i + 1] = "\n")}

\* where the last consumed newline sequence ends; 0 when there is none
LastNewlineEnd ==
    IF NewlineEnds(Consumed) = {} THEN 0
    ELSE CHOOSE i \in NewlineEnds(Consumed) :
            \A j \in NewlineEnds(Consumed) : j <= i

\* C21: every ParseError carries a 1-based line and column: the line is 1
\* plus the number of newline sequences consumed before the failure, each
\* of "\n", "\r\n" and "\r" counting once, and the column is 1 plus the
\* number of characters between the end of the last consumed newline and
\* the scanner's offset at the failure; both are at least 1.
C21_ErrorPosition ==
    parsed.kind = "ParseError" =>
        /\ parsed.line = 1 + Cardinality(NewlineEnds(Consumed))
        /\ parsed.char = 1 + (scanner.offset - LastNewlineEnd)
        /\ parsed.line >= 1 /\ parsed.char >= 1

\* an error on the third line, after a "\r\n" and a lone "\r"
C21_Witness ==
    /\ parsed.kind = "ParseError"
    /\ source = <<"{", "\r", "\n", "x", ":", "i", "n", "t", ",", "\r", " ",
                  "y", ":", ":", "3", "}">>
    /\ parsed.msg = "expected value"
    /\ parsed.line = 3 /\ parsed.char = 4

\* every array of a matcher has a child, every fixed map a member, and the
\* member names of a map differ pairwise
RECURSIVE WellFormed(_)
WellFormed(m) ==
    CASE m.k = "array" ->
            /\ Len(m.values) >= 1
            /\ \A i \in 1..Len(m.values) : WellFormed(m.values[i])
      [] m.k = "map" ->
            /\ Len(m.members) >= 1
            /\ \A i, j \in 1..Len(m.members) :
                  i # j => m.members[i].name # m.members[j].name
            /\ \A i \in 1..Len(m.members) : WellFormed(m.members[i].value)
      [] m.k = "dict" -> WellFormed(m.value)
      [] OTHER -> TRUE

\* the texts  []  [ ]  [...]  {}  {x:int,x:int}
EmptyOrRepeating ==
    {<<"[", "]">>, <<"[", " ", "]">>, <<"[", ".", ".", ".", "]">>,
     <<"{", "}">>,
     <<"{", "x", ":", "i", "n", "t", ",", "x", ":", "i", "n", "t", "}">>}

\* C27: every array matcher the parser produces has at least one child,
\* repeating or not, and every fixed map matcher at least one member, with
\* pairwise distinct names; the texts [], [ ], [...], {} and a map text
\* repeating a member name raise ParseError and produce no matcher.
C27_NoEmptyComposite ==
    /\ parsed.kind = "value" => WellFormed(parsed.value)
    /\ (parsed.kind # "none" /\ source \in EmptyOrRepeating) =>
            parsed.kind = "ParseError"

\* the empty repeating array is refused once its close bracket is read
C27_Witness ==
    /\ source = <<"[", ".", ".", ".", "]">>
    /\ parsed.kind = "ParseError" /\ parsed.msg = "empty array"
    /\ parsed.char = 6

-----------------------------------------------------------------------------
(* Config: config.py lines 41-171.  A dict is a function from its keys to  *)
(* its values; _config_filename is TRUE while the object has a file name   *)
(* and FALSE once it is None.  The configuration file is an LLSD map.      *)

ReloadCheckInterval == 30
MaxTicks == 3
StartTime == 100

ConfigKeys == {"a", "b"}
FileValues == {"f1", "f2"}
SetValues  == {"s1", "s2"}
Default    == "None"
\* seconds that pass between two calls
Elapses    == {20, 40}

EmptyDict == [k \in {} |-> Default]

\* d.update(e)
DictUpdate(d, e) ==
    [k \in DOMAIN d \cup DOMAIN e |-> IF k \in DOMAIN e THEN e[k] ELSE d[k]]

DictsOver(values) ==
    UNION { [S -> values] : S \in SUBSET ConfigKeys }

\* what the configuration file may hold
FileContents ==
    { d \in DictsOver(FileValues) : \A k \in DOMAIN d : k = "a" \/ d[k] = "f1" }

\* what update() may be given
UpdateDicts == DictsOver(SetValues) \ {EmptyDict}

\* the same with the file's values written over the overrides
CombineDictionariesFileWins(file_dict, overrides) ==
    DictUpdate(overrides, file_dict)

\* _combine_dictionaries: the file's values, then the overrides over them
CombineDictionaries(file_dict, overrides) ==
    LET combined == IF file_dict # EmptyDict
                    THEN DictUpdate(EmptyDict, file_dict)
                    ELSE EmptyDict
    IN  DictUpdate(combined, overrides)

\* _load at time t with the file f on disk
Load(c, f, t) ==
    IF ~c.filename
    THEN c
    ELSE [c EXCEPT !.config_file_dict = f.content,
                   !.combined_dict = CombineDictionaries(f.content,
                                                         c.config_overrides),
                   !.last_mod_time = f.mtime,
                   !.last_check_time = t]

\* does _reload_if_necessary call _load
Reloads(c, f, t) ==
    /\ t - c.last_check_time > ReloadCheckInterval
    /\ c.filename
    /\ f.exists
    /\ f.mtime > c.last_mod_time

\* _reload_if_necessary at time t with the file f on disk
ReloadIfNecessary(c, f, t) ==
    IF t - c.last_check_time > ReloadCheckInterval
    THEN LET c1 == [c EXCEPT !.last_check_time = t]
         IN  IF ~c.filename
             THEN c1                       \* modtime is 0
             ELSE IF ~f.exists             \* OSError, ENOENT
             THEN [c1 EXCEPT !.filename = FALSE,
                             !.last_check_time = 0,
                             !.last_mod_time = 0]
             ELSE IF f.mtime > c.last_mod_time
             THEN Load(c1, f, t)
             ELSE c1
    ELSE c

\* Config(filename) at StartTime, the file holding one of FileContents
ConfigInit ==
    /\ now = StartTime /\ ticks = 0
    /\ \E content \in FileContents :
          /\ cfile = [exists |-> TRUE, content |-> content, mtime |-> StartTime]
          /\ cfg = Load([filename |-> TRUE, last_check_time |-> 0,
                         last_mod_time |-> 0, config_overrides |-> EmptyDict,
                         config_file_dict |-> EmptyDict,
                         combined_dict |-> EmptyDict],
                        cfile, StartTime)
    /\ cget = [kind |-> "none"]
    /\ lastset = EmptyDict
    /\ LatticeIdle /\ MatchIdle /\ SuiteIdle /\ QueriesIdle /\ ParseIdle

ConfigOther == <<latticeVars, matchVars, suiteVars, queryVars, parseVars>>

\* conf.set(key, value) / conf[key] = value
Set(key, value) ==
    /\ LET overrides == DictUpdate(cfg.config_overrides,
                                   [k \in {key} |-> value])
       IN  cfg' = [cfg EXCEPT
                     !.config_overrides = overrides,
                     !.combined_dict =
                         CombineDictionaries(cfg.config_file_dict, overrides)]
    /\ lastset' = DictUpdate(lastset, [k \in {key} |-> value])
    /\ cget' = [kind |-> "none"]
    /\ UNCHANGED <<cfile, now, ticks, ConfigOther>>

\* conf.update(new_conf) with a dict
Update(new_conf) ==
    /\ LET overrides == DictUpdate(cfg.config_overrides, new_conf)
       IN  cfg' = [cfg EXCEPT
                     !.config_overrides = overrides,
                     !.combined_dict =
                         CombineDictionaries(cfg.config_file_dict, overrides)]
    /\ lastset' = DictUpdate(lastset, new_conf)
    /\ cget' = [kind |-> "none"]
    /\ UNCHANGED <<cfile, now, ticks, ConfigOther>>

\* conf.get(key): _reload_if_necessary, then the combined value or the default
Get(key) ==
    /\ cfg' = ReloadIfNecessary(cfg, cfile, now)
    /\ cget' = [kind |-> "returned", key |-> key,
                value |-> IF key \in DOMAIN cfg'.combined_dict
                          THEN cfg'.combined_dict[key]
                          ELSE Default,
                reloaded |-> Reloads(cfg, cfile, now)]
    /\ UNCHANGED <<cfile, now, ticks, lastset, ConfigOther>>

\* the configuration file is rewritten
ModifyFile(content) ==
    /\ cfile' = [exists |-> TRUE, content |-> content, mtime |-> now]
    /\ cfile' # cfile
    /\ cget' = [kind |-> "none"]
    /\ UNCHANGED <<cfg, now, ticks, lastset, ConfigOther>>

\* the configuration file is removed
RemoveFile ==
    /\ cfile.exists
    /\ cfile' = [exists |-> FALSE, content |-> EmptyDict, mtime |-> 0]
    /\ cget' = [kind |-> "none"]
    /\ UNCHANGED <<cfg, now, ticks, lastset, ConfigOther>>

\* time.time() advances
Tick(seconds) ==
    /\ ticks < MaxTicks
    /\ now' = now + seconds
    /\ ticks' = ticks + 1
    /\ cget' = [kind |-> "none"]
    /\ UNCHANGED <<cfg, cfile, lastset, ConfigOther>>

ConfigNext ==
    \/ \E key \in ConfigKeys, value \in SetValues : Set(key, value)
    \/ \E new_conf \in UpdateDicts : Update(new_conf)
    \/ \E key \in ConfigKeys : Get(key)
    \/ \E content \in FileContents : ModifyFile(content)
    \/ RemoveFile
    \/ \E seconds \in Elapses : Tick(seconds)

SpecConfig == ConfigInit /\ [][ConfigNext]_vars

-----------------------------------------------------------------------------
(* Properties of Config, checked under SpecConfig.                         *)

\* C23: get(key) returns, for a key ever given to set or update, the value of
\* the most recent set/update naming it, whatever the file holds and whatever
\* was reloaded; for a key never overridden it returns the value of the file
\* content most recently loaded (the default when that content lacks the key)
C23_OverridesWin ==
    cget.kind = "returned" =>
        IF cget.key \in DOMAIN lastset
        THEN cget.value = lastset[cget.key]
        ELSE IF cget.key \in DOMAIN cfg.config_file_dict
        THEN cget.value = cfg.config_file_dict[cget.key]
        ELSE cget.value = Default

\* a get that reloaded a file holding another value for a key set before
C23_Witness ==
    /\ cget.kind = "returned"
    /\ cget.reloaded
    /\ cget.key \in DOMAIN lastset
    /\ cget.key \in DOMAIN cfg.config_file_dict
    /\ cfg.config_file_dict = cfile.content
    /\ cget.value = lastset[cget.key]
    /\ \E other \in ConfigKeys \ DOMAIN lastset :
          other \in DOMAIN cfg.combined_dict

====
